---- MODULE Spec2Model ----
(***************************************************************************)
(* Batch / order concurrency engine of gameday-sim:                        *)
(*   internal/simulator/batch.go  (BatchProcessor, processSingleBatch)     *)
(*   internal/simulator/order.go  (ProcessOrder, flows, TerminationWorker) *)
(* and the phases of runSimulation before it:                              *)
(*   main.go                          (runSimulation)                      *)
(*   internal/payload/types.go        (Generator.GenerateAll)              *)
(*   internal/payload/distributor.go  (Distribute, ValidateBatches)        *)
(*                                                                         *)
(* Spec and FairSpec start where ProcessBatches has launched its           *)
(* goroutines on the configuration of the bounds; RunSpec runs the phases  *)
(* of runSimulation over every small configuration, with ProcessBatches    *)
(* reduced to the remote calls it makes.                                   *)
(*                                                                         *)
(* One goroutine per batch, admitted through a counting semaphore, drives  *)
(* its payloads one after the other through ProcessOrder.  The flows hand  *)
(* a TerminationRequest holding a pointer to the OrderResult over the      *)
(* buffered terminationChan to the single TerminationWorker goroutine.     *)
(*                                                                         *)
(* Every Go statement that touches an OrderResult after it has been shared *)
(* through the channel is a step of its own, so that the unsynchronised    *)
(* accesses of the driver and of the worker interleave as the Go memory    *)
(* model allows.  A time.Time is abstracted to "zero" (the zero value) or  *)
(* "set" (a reading of the clock); a Duration computed from it likewise.   *)
(***************************************************************************)
EXTENDS Integers, Sequences, FiniteSets, TLC

(* ------------------------------ bounds -------------------------------- *)
(* config.Simulation: TotalOrders, BatchSize, ActivatedCount and           *)
(* ParallelBatches; ChanCap is the buffer of terminationChan (1000 in      *)
(* NewBatchProcessor).                                                     *)
TotalOrders == 3
BatchSize == 2
ActivatedCount == 1
ParallelBatches == 1
ChanCap == 2

Orders == 1..TotalOrders

(* Distributor.Distribute: ceil(len(payloads) / batchSize) batches, IDs    *)
(* from 1; batch b holds payloads (b-1)*batchSize+1 .. min(b*batchSize,    *)
(* len) in order.                                                          *)
NumBatches == (TotalOrders + BatchSize - 1) \div BatchSize

Batches == 1..NumBatches

BatchLen(b) ==
    IF b * BatchSize > TotalOrders
    THEN TotalOrders - (b - 1) * BatchSize
    ELSE BatchSize

PayloadAt(b, i) == (b - 1) * BatchSize + i

(* ------------------------------ payloads ------------------------------ *)
TypeActivate == "activate"
TypeAccepted == "accepted"

StateNone == "none"
StateCreated == "created"
StateAccepted == "accepted"
StateActivated == "activated"
StatePendingCancel == "pending_cancel"
StatePendingEnd == "pending_end"
StateCancelled == "cancelled"
StateEnded == "ended"
StateFailed == "failed"

ActionEnd == "end"
ActionCancel == "cancel"

(* Generator.GenerateAll: the first ActivatedCount payloads are activate,  *)
(* the rest accepted.                                                      *)
PayloadType(o) == IF o <= ActivatedCount THEN TypeActivate ELSE TypeAccepted

(* --------------------- generatePolyline (types.go) -------------------- *)
(* Coordinates are integers: a point is <<lng, lat>>.  The generator is    *)
(* run for at most MaxPolylines calls and followed down to row MaxRow; the *)
(* boundaries it is given span up to MaxSpan columns and rows.             *)
MaxPolylines == 4
MaxRow == 4
MaxSpan == 3

(* payloadData.Delta: the column step (longitude) and the extra row gap    *)
(* (latitude).                                                             *)
DeltaLongitude == 4
DeltaLatitude == 2

(* calculatePolylineHeight: max latitude - min latitude, 0 for no points.  *)
calculatePolylineHeight(coords) ==
    IF Len(coords) = 0 THEN 0
    ELSE LET lats == {coords[k][2] : k \in 1..Len(coords)}
             maxLat == CHOOSE m \in lats : \A l \in lats : l <= m
             minLat == CHOOSE m \in lats : \A l \in lats : l >= m
         IN  maxLat - minLat

(* isPointInPolygon: ray casting over the edges (polygon[j], polygon[i]),  *)
(* j the index before i (the last one for the first).  An edge is crossed  *)
(* when (yi > lat) != (yj > lat) and lng < (xj-xi)*(lat-yi)/(yj-yi) + xi;  *)
(* the division is exact here, the comparison being multiplied through by  *)
(* yj - yi, which is not 0 when the first condition holds.                 *)
Crosses(lng, lat, pi, pj) ==
    /\ (pi[2] > lat) # (pj[2] > lat)
    /\ IF pj[2] - pi[2] > 0
       THEN (lng - pi[1]) * (pj[2] - pi[2]) < (pj[1] - pi[1]) * (lat - pi[2])
       ELSE (lng - pi[1]) * (pj[2] - pi[2]) > (pj[1] - pi[1]) * (lat - pi[2])

isPointInPolygon(lng, lat, polygon) ==
    LET prev(i) == IF i = 1 THEN Len(polygon) ELSE i - 1
        crossed == {i \in 1..Len(polygon) :
                       Crosses(lng, lat, polygon[i], polygon[prev(i)])}
    IN  Cardinality(crossed) % 2 = 1

(* Mutant of isPolylineInBoundary: only the first point is tested.         *)
isFirstPointInBoundary(polyline, boundary) ==
    IF Len(boundary) = 0
    THEN TRUE
    ELSE isPointInPolygon(polyline[1][1], polyline[1][2], boundary[1])

(* isPolylineInBoundary: without a boundary every position is allowed;     *)
(* else every point must be inside the first (exterior) ring.              *)
isPolylineInBoundary(polyline, boundary) ==
    IF Len(boundary) = 0
    THEN TRUE
    ELSE \A k \in 1..Len(polyline) :
            isPointInPolygon(polyline[k][1], polyline[k][2], boundary[1])

(* The candidate of generatePolyline: the base polyline moved by           *)
(* Delta.Longitude * currentCol east and by                                *)
(* (polylineHeight + Delta.Latitude) * currentRow south.                   *)
Candidate(in, g) ==
    LET lngOffset == in.dLng * g.currentCol
        rowSpacing == calculatePolylineHeight(in.base) + in.dLat
        latOffset == (0 - rowSpacing) * g.currentRow
    IN  [k \in 1..Len(in.base) |->
            <<in.base[k][1] + lngOffset, in.base[k][2] + latOffset>>]

(* NewGenerator: row 0, column 0, direction +1, maxColInRow -1.            *)
NewGenerator == [currentRow |-> 0, currentCol |-> 0, direction |-> 1,
                 maxColInRow |-> 0 - 1]

(* The base polylines and the boundaries the generator is run on: a flat   *)
(* and a descending two-point line; no boundary, or a ring (closed, as in  *)
(* GeoJSON) that is a rectangle or a right triangle of w columns and h     *)
(* rows with its top-left corner at the origin.                            *)
BasePolylines == {<< <<1, 0 - 1>>, <<3, 0 - 1>> >>,
                  << <<1, 0 - 1>>, <<3, 0 - 3>> >>}

Rectangle(w, h) ==
    << <<0, 0>>, <<DeltaLongitude * w, 0>>,
       <<DeltaLongitude * w, 0 - 2 * DeltaLatitude * h>>,
       <<0, 0 - 2 * DeltaLatitude * h>>, <<0, 0>> >>

Triangle(w, h) ==
    << <<0, 0>>, <<2 * DeltaLongitude * w, 0>>,
       <<0, 0 - 4 * DeltaLatitude * h>>, <<0, 0>> >>

Boundaries ==
    {<<>>}
    \cup {<<Rectangle(w, h)>> : w \in 1..MaxSpan, h \in 1..MaxSpan}
    \cup {<<Triangle(w, h)>> : w \in 1..MaxSpan, h \in 1..MaxSpan}

GenInputs ==
    {[base |-> b, dLng |-> DeltaLongitude, dLat |-> DeltaLatitude,
      boundary |-> r] : b \in BasePolylines, r \in Boundaries}

(* The payload data of the runs in which the boundary plays no part: the   *)
(* flat base polyline, no boundary.                                        *)
NoPayloadData ==
    [base |-> << <<1, 0 - 1>>, <<3, 0 - 1>> >>, dLng |-> DeltaLongitude,
     dLat |-> DeltaLatitude, boundary |-> <<>>]

(* Without a boundary no candidate is rejected: the call for payload index *)
(* returns the candidate of row 0, column index.                           *)
UnboundedPolyline(index) ==
    Candidate(NoPayloadData, [NewGenerator EXCEPT !.currentCol = index])

(* ------------- GenerateAll, Distribute, ValidateBatches --------------- *)
(* The inputs the payload functions are applied to: totalOrders in         *)
(* 0..MaxTotalOrders, activatedCount in 0..totalOrders, batchSize in       *)
(* 1..MaxBatchSize; MaxRemoteCalls bounds the history of remote calls.     *)
MaxTotalOrders == 4
MaxBatchSize == 3
MaxRemoteCalls == 2

(* fmt.Sprintf("%s%06d", prefix, n): the prefix, then the decimal digits   *)
(* of n, with zeros in front up to the width 6 (and no digit dropped when  *)
(* n has more).  A string is the sequence of its parts: the prefix, then   *)
(* one digit after the other.                                              *)
OrderNumberWidth == 6

OrderNumberPrefix == "ORD-"

RECURSIVE Digits(_)
Digits(n) == IF n < 10 THEN <<n>> ELSE Append(Digits(n \div 10), n % 10)

RECURSIVE PadZeros(_, _)
PadZeros(ds, width) ==
    IF Len(ds) >= width THEN ds ELSE PadZeros(<<0>> \o ds, width)

SprintfOrderNumber(n) ==
    <<OrderNumberPrefix>> \o PadZeros(Digits(n), OrderNumberWidth)

(* Mutant of generatePayload: the order number is made of index, not of    *)
(* index+1.                                                                *)
generatePayloadFromZero(index, orderType, geometry) ==
    [OrderNumber |-> SprintfOrderNumber(index), Type |-> orderType,
     Geometry |-> geometry]

(* Generator.generatePayload(index, orderType): the order number of        *)
(* index+1, the type, and the geometry its call of generatePolyline has    *)
(* returned.                                                               *)
generatePayload(index, orderType, geometry) ==
    [OrderNumber |-> SprintfOrderNumber(index + 1), Type |-> orderType,
     Geometry |-> geometry]

(* Mutant of GenerateAll: the second loop starts one index too late.       *)
GenerateAllSkipOne(totalOrders, activatedCount) ==
    LET nAccepted == IF totalOrders > activatedCount + 1
                     THEN totalOrders - activatedCount - 1 ELSE 0
    IN  [i \in 1..activatedCount |->
            generatePayload(i - 1, TypeActivate, UnboundedPolyline(i - 1))]
        \o [i \in 1..nAccepted |->
               generatePayload(activatedCount + i, TypeAccepted,
                               UnboundedPolyline(activatedCount + i))]

(* Generator.GenerateAll: for i in [0, activatedCount) an activate payload,*)
(* then for i in [activatedCount, totalOrders) an accepted payload, in     *)
(* this order (the shuffle is commented out); as a function, for the       *)
(* payload data without a boundary.                                        *)
GenerateAll(totalOrders, activatedCount) ==
    LET nAccepted == IF totalOrders > activatedCount
                     THEN totalOrders - activatedCount ELSE 0
    IN  [i \in 1..activatedCount |->
            generatePayload(i - 1, TypeActivate, UnboundedPolyline(i - 1))]
        \o [i \in 1..nAccepted |->
               generatePayload(activatedCount + i - 1, TypeAccepted,
                               UnboundedPolyline(activatedCount + i - 1))]

(* The loop of Distribute from offset i (0-based) with the batches built   *)
(* so far: batch len(batches)+1 takes payloads[i:min(i+batchSize, len)].   *)
RECURSIVE DistributeFrom(_, _, _, _)
DistributeFrom(pls, batchSize, i, acc) ==
    IF i >= Len(pls)
    THEN acc
    ELSE LET end == IF i + batchSize > Len(pls) THEN Len(pls)
                    ELSE i + batchSize
         IN  DistributeFrom(pls, batchSize, i + batchSize,
                 Append(acc, [ID |-> Len(acc) + 1,
                              Payloads |-> SubSeq(pls, i + 1, end)]))

(* Mutant of Distribute: only the full batches, the remainder is dropped.  *)
DistributeFullOnly(pls, batchSize) ==
    IF Len(pls) = 0
    THEN <<>>
    ELSE DistributeFrom(SubSeq(pls, 1, (Len(pls) \div batchSize) * batchSize),
                        batchSize, 0, <<>>)

(* Distributor.Distribute: nil for an empty list, else the loop.           *)
Distribute(pls, batchSize) ==
    IF Len(pls) = 0
    THEN <<>>
    ELSE DistributeFrom(pls, batchSize, 0, <<>>)

(* Mutant of ValidateBatches: only the batches themselves are looked at.   *)
ValidateBatchesEachOnly(bs) ==
    IF \E k \in 1..Len(bs) : Len(bs[k].Payloads) = 0
    THEN "batch has no payloads"
    ELSE "nil"

(* payload.ValidateBatches: the error it returns, "nil" for none.          *)
ValidateBatches(bs) ==
    IF Len(bs) = 0
    THEN "no batches to validate"
    ELSE IF \E k \in 1..Len(bs) : Len(bs[k].Payloads) = 0
    THEN "batch has no payloads"
    ELSE "nil"

VARIABLES
    cfg,              \* config.Simulation as runSimulation received it
    phase,            \* position of runSimulation
    payloads,         \* the payload list GenerateAll returned
    batches,          \* the batch list Distribute returned
    validation,       \* what ValidateBatches returned
    remoteCalls,      \* history: remote calls of the run, in order
    simResult,        \* the SimulationResult ProcessBatches returned
    ctxDone,          \* the shared context has been cancelled
    ctxWoken,         \* drivers parked in a select when the context ended
    closed,           \* terminationChan has been closed
    driverLog,        \* history: remote calls of each driver, last poll status
    genIn,            \* payloadData: base polyline, delta, boundary
    gen,              \* the Generator's cursor: row, column, direction, max
    placed,           \* history: the placements generatePolyline returned
    req,              \* one call of the API client's doRequest
    semaphore,        \* number of slots held in the semaphore channel
    terminationChan,  \* buffered channel of TerminationRequest
    result,           \* the OrderResult objects, one per order, by pointer
    opc,              \* position of ProcessOrder for each order
    bpc,              \* position of each batch goroutine
    idx,              \* loop index i of processSingleBatch
    batchResult,      \* the BatchResult each batch goroutine builds
    wpc,              \* position of the TerminationWorker
    wreq,             \* the request the worker received last
    resultsChan,      \* buffered channel of BatchResult
    errorsChan,       \* buffered channel of error
    sendLog,          \* history: requests in the order they were sent
    recvLog,          \* history: requests in the order the worker received them
    callLog,          \* history: remote end/cancel calls of the worker
    doneLog,          \* history: orders whose processTermination returned
    writesAfterSend   \* history: fields a driver wrote after its send

vars == <<cfg, phase, payloads, batches, validation, remoteCalls, simResult,
          ctxDone, ctxWoken, closed, driverLog, genIn, gen, placed, req,
          semaphore, terminationChan, result, opc, bpc, idx,
          batchResult, wpc, wreq, resultsChan, errorsChan,
          sendLog, recvLog, callLog, doneLog, writesAfterSend>>

(* the variables of runSimulation outside ProcessBatches                   *)
genVars == <<genIn, gen, placed, req>>

runVars == <<cfg, phase, payloads, batches, validation, remoteCalls>>

mainVars == <<runVars, simResult, closed, genVars>>

(* the variables of the batch goroutines, of the worker, and the history   *)
batchVars == <<semaphore, bpc, idx, batchResult, resultsChan, errorsChan>>
workerVars == <<wpc, wreq, recvLog, callLog, doneLog>>

NoReq == [OrderID |-> 0, Action |-> "none"]

TerminationRequest(o, a) == [OrderID |-> o, Action |-> a]

NewOrderResult == [State |-> StateNone, EndTime |-> "zero",
                   Duration |-> "zero", Error |-> "nil"]

NewBatchResult(b) == [TotalOrders |-> BatchLen(b), SuccessfulOrders |-> 0,
                      FailedOrders |-> 0, OrderResults |-> <<>>]

(* No remote call made, no status polled yet.                              *)
NewDriverLog == [create |-> 0, activate |-> 0, lastStatus |-> "none"]

NewSimulationResult == [TotalOrders |-> 0, SuccessfulOrders |-> 0,
                        FailedOrders |-> 0, BatchResults |-> <<>>]

(* The errors executeRequest and doRequest return (models.go 308-400): nil, *)
(* an *HTTPError with its status code, any other error, the context's      *)
(* error, and the "request failed after %d attempts" error of doRequest.   *)
ErrorValue(t, code) == [type |-> t, StatusCode |-> code]

NilError == ErrorValue("nil", 0)

OtherError == ErrorValue("error", 0)

CtxError == ErrorValue("ctx", 0)

HTTPError(code) == ErrorValue("HTTPError", code)

FailedAfterAttempts == ErrorValue("failedAfterAttempts", 0)

(* A call of doRequest on a client with the given settings, not yet begun. *)
(* outcomes, waits and cancelledAt are history: what each executeRequest   *)
(* returned, the length of each completed backoff wait, and the number of  *)
(* attempts made when the context ended during a backoff wait (-1: none).  *)
NewRequest(retryMax, backoff) ==
    [retryMax |-> retryMax, backoff |-> backoff, pc |-> "loop",
     attempt |-> 0, waitTime |-> 0, waited |-> 0, ctxDone |-> FALSE,
     woken |-> FALSE, lastErr |-> NilError, ret |-> NilError,
     outcomes |-> <<>>, waits |-> <<>>, cancelledAt |-> -1]

(* No call of doRequest is being followed.                                 *)
NoRequest == [NewRequest(0, 0) EXCEPT !.pc = "idle"]

(* The state in which ProcessBatches has started its goroutines: the       *)
(* configuration of the bounds, its payloads generated, distributed and    *)
(* validated, the token obtained, the worker running.                      *)
Init ==
    /\ cfg = [TotalOrders |-> TotalOrders, ActivatedCount |-> ActivatedCount,
              BatchSize |-> BatchSize]
    /\ phase = "process"
    /\ payloads = GenerateAll(TotalOrders, ActivatedCount)
    /\ batches = Distribute(payloads, BatchSize)
    /\ validation = ValidateBatches(batches)
    /\ remoteCalls = <<"token">>
    /\ simResult = NewSimulationResult
    /\ ctxDone = FALSE
    /\ ctxWoken = {}
    /\ closed = FALSE
    /\ driverLog = [o \in Orders |-> NewDriverLog]
    /\ genIn = NoPayloadData
    /\ gen = NewGenerator
    /\ placed = <<>>
    /\ req = NoRequest
    /\ semaphore = 0
    /\ terminationChan = <<>>
    /\ result = [o \in Orders |-> NewOrderResult]
    /\ opc = [o \in Orders |-> "idle"]
    /\ bpc = [b \in Batches |-> "acquire"]
    /\ idx = [b \in Batches |-> 1]
    /\ batchResult = [b \in Batches |-> NewBatchResult(b)]
    /\ wpc = "select"
    /\ wreq = NoReq
    /\ resultsChan = <<>>
    /\ errorsChan = <<>>
    /\ sendLog = <<>>
    /\ recvLog = <<>>
    /\ callLog = <<>>
    /\ doneLog = <<>>
    /\ writesAfterSend = [o \in Orders |-> {}]

(* The positions at which a driver is parked in a select between           *)
(* ctx.Done() and a timer that has not fired.                              *)
ParkedInSelect ==
    {"waitInitial", "poll", "beforeActivate", "beforeEnd", "beforeCancel"}

(* The signal handler of main cancels the context at any moment.  Closing  *)
(* the Done channel wakes every goroutine parked in a select on it, and    *)
(* the select of a goroutine woken so takes the ctx.Done() case: a timer   *)
(* that fires later is not looked at any more.  (A timer that fired before *)
(* the cancellation is the timer branch taken before Cancel.)              *)
Cancel ==
    /\ ~ctxDone
    /\ ctxDone' = TRUE
    /\ ctxWoken' = {o \in Orders : opc[o] \in ParkedInSelect}
    /\ UNCHANGED <<mainVars, driverLog, terminationChan, result, opc,
                   batchVars, workerVars, sendLog, writesAfterSend>>


(* ---------------------- ProcessOrder (order.go) ----------------------- *)
(* The error of a remote call made under a cancelled context: the request  *)
(* is not sent, http.Client.Do fails with the context's error.             *)
RemoteOutcomes == IF ctxDone THEN {"err"} ELSE {"ok", "err"}

(* GetDetails: a transport error, or one of the statuses the poll reads.   *)
DetailsOutcomes ==
    IF ctxDone THEN {"err"} ELSE {"Accepted", "Failed", "Pending", "err"}

(* ProcessOrder's error return: result.Error = err; result.State = Failed  *)
(* (order.go 55-57 and 65-67).                                             *)
FailOrder(r, err) == [r EXCEPT !.Error = err, !.State = StateFailed]

(* A driver's write of `field` to the record of o, noted when its          *)
(* TerminationRequest has already been sent.                               *)
NoteDriverWrite(o, field) ==
    writesAfterSend' =
        [writesAfterSend EXCEPT ![o] =
            IF \E k \in 1..Len(sendLog) : sendLog[k].OrderID = o
            THEN @ \cup {field} ELSE @]

(* One more call of the named remote operation by the driver of o.        *)
NoteCall(o, api) == driverLog' = [driverLog EXCEPT ![o][api] = @ + 1]

(* Mutant of CreateOrder: a failed create call is repeated once.           *)
CreateOrderRetry(o) ==
    /\ opc[o] = "create"
    /\ NoteCall(o, "create")
    /\ \E out \in RemoteOutcomes :
        IF out = "ok"
        THEN /\ result' = [result EXCEPT ![o].State = StateCreated]
             /\ opc' = [opc EXCEPT ![o] = "waitInitial"]
        ELSE IF driverLog[o].create = 0
        THEN /\ result' = result
             /\ opc' = opc
        ELSE /\ result' = [result EXCEPT ![o] = FailOrder(@, "create")]
             /\ opc' = [opc EXCEPT ![o] = "returnedErr"]
    /\ UNCHANGED <<mainVars, ctxWoken, ctxDone, terminationChan, batchVars,
                   workerVars, sendLog, writesAfterSend>>

(* Step 1: createOrder, one CreateOrder call.                              *)
CreateOrder(o) ==
    /\ opc[o] = "create"
    /\ NoteCall(o, "create")
    /\ \E out \in RemoteOutcomes :
        IF out = "ok"
        THEN /\ result' = [result EXCEPT ![o].State = StateCreated]
             /\ opc' = [opc EXCEPT ![o] = "waitInitial"]
        ELSE /\ result' = [result EXCEPT ![o] = FailOrder(@, "create")]
             /\ opc' = [opc EXCEPT ![o] = "returnedErr"]
    /\ UNCHANGED <<mainVars, ctxWoken, ctxDone, terminationChan, batchVars,
                   workerVars, sendLog, writesAfterSend>>

(* Mutant of WaitInitial: the initial wait as a time.Sleep, which does not *)
(* look at the context.                                                    *)
WaitInitialSleep(o) ==
    /\ opc[o] = "waitInitial"
    /\ result' = result
    /\ opc' = [opc EXCEPT ![o] = "poll"]
    /\ UNCHANGED <<mainVars, ctxWoken, ctxDone, driverLog, terminationChan,
                   batchVars, workerVars, sendLog, writesAfterSend>>

(* waitForAcceptance, first select: context against AfterCreateBeforeGet.  *)
WaitInitial(o) ==
    /\ opc[o] = "waitInitial"
    /\ \/ /\ ctxDone
          /\ result' = [result EXCEPT ![o] = FailOrder(@, "ctx")]
          /\ opc' = [opc EXCEPT ![o] = "returnedErr"]
       \/ /\ o \notin ctxWoken
          /\ result' = result
          /\ opc' = [opc EXCEPT ![o] = "poll"]
    /\ UNCHANGED <<mainVars, ctxWoken, ctxDone, driverLog, terminationChan,
                   batchVars, workerVars, sendLog, writesAfterSend>>

(* waitForAcceptance, the poll loop: a select between the context, the    *)
(* deadline (Cleanup.CancelTimeout) and the ticker.                        *)
(* case <-ctx.Done(): return ctx.Err()                                     *)
PollCtx(o) ==
    /\ opc[o] = "poll"
    /\ ctxDone
    /\ result' = [result EXCEPT ![o] = FailOrder(@, "ctx")]
    /\ opc' = [opc EXCEPT ![o] = "returnedErr"]
    /\ UNCHANGED <<mainVars, ctxWoken, ctxDone, driverLog, terminationChan,
                   batchVars, workerVars, sendLog, writesAfterSend>>

(* Mutant of PollTimeout: a loop without the deadline case.                *)
PollTimeoutNever(o) ==
    /\ opc[o] = "poll"
    /\ FALSE
    /\ result' = [result EXCEPT ![o] = FailOrder(@, "timeout")]
    /\ opc' = [opc EXCEPT ![o] = "returnedErr"]
    /\ UNCHANGED <<mainVars, ctxWoken, ctxDone, driverLog, terminationChan,
                   batchVars, workerVars, sendLog, writesAfterSend>>

(* case <-timeout: the deadline has elapsed, "timeout waiting for order    *)
(* acceptance".  The deadline can elapse at any moment of the loop.        *)
PollTimeout(o) ==
    /\ opc[o] = "poll"
    /\ o \notin ctxWoken
    /\ result' = [result EXCEPT ![o] = FailOrder(@, "timeout")]
    /\ opc' = [opc EXCEPT ![o] = "returnedErr"]
    /\ UNCHANGED <<mainVars, ctxWoken, ctxDone, driverLog, terminationChan,
                   batchVars, workerVars, sendLog, writesAfterSend>>

(* Mutant of PollTick: the status Failed is taken for one more pending     *)
(* poll.                                                                   *)
PollTickIgnoreFailed(o) ==
    /\ opc[o] = "poll"
    /\ o \notin ctxWoken
    /\ \E out \in DetailsOutcomes :
         /\ driverLog' = [driverLog EXCEPT ![o].lastStatus = out]
         /\ CASE out = "err" ->
                    /\ result' = [result EXCEPT
                                      ![o] = FailOrder(@, "getDetails")]
                    /\ opc' = [opc EXCEPT ![o] = "returnedErr"]
              [] out = "Accepted" ->
                    /\ result' = [result EXCEPT ![o].State = StateAccepted]
                    /\ opc' = [opc EXCEPT ![o] =
                          IF PayloadType(o) = TypeActivate
                          THEN "beforeActivate" ELSE "beforeCancel"]
              [] out \in {"Pending", "Failed"} ->
                    /\ result' = result
                    /\ opc' = opc
    /\ UNCHANGED <<mainVars, ctxWoken, ctxDone, terminationChan, batchVars,
                   workerVars, sendLog, writesAfterSend>>

(* case <-ticker.C: one GetDetails call.  A transport error and the status *)
(* Failed end the wait with an error, Accepted ends it with success (and   *)
(* ProcessOrder sets Accepted and enters the flow of the payload type),    *)
(* any other status goes round the loop.                                   *)
(* A driver that comes back to the select with a tick already buffered and *)
(* the context just cancelled may still take the ticker case; its          *)
(* GetDetails then fails, which is the "err" outcome taken before Cancel.  *)
PollTick(o) ==
    /\ opc[o] = "poll"
    /\ o \notin ctxWoken
    /\ \E out \in DetailsOutcomes :
         /\ driverLog' = [driverLog EXCEPT ![o].lastStatus = out]
         /\ CASE out = "err" ->
                    /\ result' = [result EXCEPT
                                      ![o] = FailOrder(@, "getDetails")]
                    /\ opc' = [opc EXCEPT ![o] = "returnedErr"]
              [] out = "Failed" ->
                    /\ result' = [result EXCEPT
                                      ![o] = FailOrder(@, "orderFailed")]
                    /\ opc' = [opc EXCEPT ![o] = "returnedErr"]
              [] out = "Accepted" ->
                    /\ result' = [result EXCEPT ![o].State = StateAccepted]
                    /\ opc' = [opc EXCEPT ![o] =
                          IF PayloadType(o) = TypeActivate
                          THEN "beforeActivate" ELSE "beforeCancel"]
              [] out = "Pending" ->
                    /\ result' = result
                    /\ opc' = opc
    /\ UNCHANGED <<mainVars, ctxWoken, ctxDone, terminationChan, batchVars,
                   workerVars, sendLog, writesAfterSend>>

PollAcceptance(o) ==
    \/ PollCtx(o)
    \/ PollTimeout(o)
    \/ PollTick(o)

(* Mutant of ActivateOrder: the error of the activate call is dropped and  *)
(* the flow goes on to the end request.                                    *)
ActivateOrderIgnoreError(o) ==
    /\ opc[o] = "beforeActivate"
    /\ \/ /\ ctxDone
          /\ result' = [result EXCEPT ![o].Error = "ctx"]
          /\ opc' = [opc EXCEPT ![o] = "returnedErr"]
          /\ UNCHANGED driverLog
       \/ \E out \in RemoteOutcomes :
            /\ o \notin ctxWoken
            /\ NoteCall(o, "activate")
            /\ IF out = "ok"
               THEN result' = [result EXCEPT ![o].State = StateActivated]
               ELSE result' = [result EXCEPT ![o] = FailOrder(@, "activate")]
            /\ opc' = [opc EXCEPT ![o] = "beforeEnd"]
    /\ UNCHANGED <<mainVars, ctxWoken, ctxDone, terminationChan, batchVars,
                   workerVars, sendLog, writesAfterSend>>

(* activateFlow: wait BeforeActivate, then ActivateOrder.  On a context    *)
(* error ProcessOrder records the error and leaves the state alone.        *)
ActivateOrder(o) ==
    /\ opc[o] = "beforeActivate"
    /\ \/ /\ ctxDone
          /\ result' = [result EXCEPT ![o].Error = "ctx"]
          /\ opc' = [opc EXCEPT ![o] = "returnedErr"]
          /\ UNCHANGED driverLog
       \/ \E out \in RemoteOutcomes :
            /\ o \notin ctxWoken
            /\ NoteCall(o, "activate")
            /\ IF out = "ok"
               THEN /\ result' = [result EXCEPT ![o].State = StateActivated]
                    /\ opc' = [opc EXCEPT ![o] = "beforeEnd"]
               ELSE /\ result' = [result EXCEPT
                                     ![o] = FailOrder(@, "activate")]
                    /\ opc' = [opc EXCEPT ![o] = "returnedErr"]
    /\ UNCHANGED <<mainVars, ctxWoken, ctxDone, terminationChan, batchVars,
                   workerVars, sendLog, writesAfterSend>>

(* activateFlow: wait BeforeEnd.                                           *)
WaitBeforeEnd(o) ==
    /\ opc[o] = "beforeEnd"
    /\ \/ /\ ctxDone
          /\ result' = [result EXCEPT ![o].Error = "ctx"]
          /\ opc' = [opc EXCEPT ![o] = "returnedErr"]
       \/ /\ o \notin ctxWoken
          /\ result' = result
          /\ opc' = [opc EXCEPT ![o] = "sendEnd"]
    /\ UNCHANGED <<mainVars, ctxWoken, ctxDone, driverLog, terminationChan,
                   batchVars, workerVars, sendLog, writesAfterSend>>

(* acceptedFlow: wait BeforeCancel.                                        *)
WaitBeforeCancel(o) ==
    /\ opc[o] = "beforeCancel"
    /\ \/ /\ ctxDone
          /\ result' = [result EXCEPT ![o].Error = "ctx"]
          /\ opc' = [opc EXCEPT ![o] = "returnedErr"]
       \/ /\ o \notin ctxWoken
          /\ result' = result
          /\ opc' = [opc EXCEPT ![o] = "sendCancel"]
    /\ UNCHANGED <<mainVars, ctxWoken, ctxDone, driverLog, terminationChan,
                   batchVars, workerVars, sendLog, writesAfterSend>>

(* Mutant of ChanSend: terminationChan made without a buffer; the send     *)
(* completes only as a hand-over to the worker waiting in its select.      *)
ChanSendUnbuffered(o, action, next) ==
    /\ wpc = "select"
    /\ wreq' = TerminationRequest(o, action)
    /\ recvLog' = Append(recvLog, TerminationRequest(o, action))
    /\ wpc' = "apply"
    /\ sendLog' = Append(sendLog, TerminationRequest(o, action))
    /\ opc' = [opc EXCEPT ![o] = next]
    /\ UNCHANGED <<mainVars, ctxWoken, ctxDone, driverLog, terminationChan,
                   result, batchVars, callLog, doneLog, writesAfterSend>>

(* p.terminationChan <- TerminationRequest{...}: a plain send on the       *)
(* buffered channel, which blocks while the buffer is full.                *)
ChanSend(o, action, next) ==
    /\ ~closed
    /\ Len(terminationChan) < ChanCap
    /\ terminationChan' = Append(terminationChan,
                                 TerminationRequest(o, action))
    /\ sendLog' = Append(sendLog, TerminationRequest(o, action))
    /\ opc' = [opc EXCEPT ![o] = next]
    /\ UNCHANGED <<mainVars, ctxWoken, ctxDone, driverLog, result, batchVars,
                   workerVars, writesAfterSend>>

SendEnd(o) ==
    /\ opc[o] = "sendEnd"
    /\ ChanSend(o, ActionEnd, "setPendingEnd")

(* Mutant of SendCancel: the accepted flow asks for an end.                *)
SendCancelAsEnd(o) ==
    /\ opc[o] = "sendCancel"
    /\ ChanSend(o, ActionEnd, "setPendingCancel")

SendCancel(o) ==
    /\ opc[o] = "sendCancel"
    /\ ChanSend(o, ActionCancel, "setPendingCancel")

(* The statement after the send: result.State = StatePendingEnd /          *)
(* StatePendingCancel, then the flow returns nil.                          *)
DriverSetState(o, at, st) ==
    /\ opc[o] = at
    /\ result' = [result EXCEPT ![o].State = st]
    /\ NoteDriverWrite(o, "State")
    /\ opc' = [opc EXCEPT ![o] = "setEndTime"]
    /\ UNCHANGED <<mainVars, ctxWoken, ctxDone, driverLog, terminationChan,
                   batchVars, workerVars, sendLog>>

SetPendingEnd(o) == DriverSetState(o, "setPendingEnd", StatePendingEnd)

SetPendingCancel(o) == DriverSetState(o, "setPendingCancel", StatePendingCancel)

(* ProcessOrder: result.EndTime = time.Now()                               *)
SetEndTime(o) ==
    /\ opc[o] = "setEndTime"
    /\ result' = [result EXCEPT ![o].EndTime = "set"]
    /\ NoteDriverWrite(o, "EndTime")
    /\ opc' = [opc EXCEPT ![o] = "setDuration"]
    /\ UNCHANGED <<mainVars, ctxWoken, ctxDone, driverLog, terminationChan,
                   batchVars, workerVars, sendLog>>

(* ProcessOrder: result.Duration = result.EndTime.Sub(result.StartTime)    *)
SetDuration(o) ==
    /\ opc[o] = "setDuration"
    /\ result' = [result EXCEPT ![o].Duration = result[o].EndTime]
    /\ NoteDriverWrite(o, "Duration")
    /\ opc' = [opc EXCEPT ![o] = "returnedOk"]
    /\ UNCHANGED <<mainVars, ctxWoken, ctxDone, driverLog, terminationChan,
                   batchVars, workerVars, sendLog>>


(* ------------------- ProcessBatches (batch.go 58-82) ------------------ *)
(* Mutant of SemaphoreHasRoom: the semaphore made with one slot per batch, *)
(* make(chan struct{}, len(batches)).                                      *)
SemaphoreSizedByBatches == semaphore < NumBatches

(* semaphore <- struct{}{} can proceed: the channel of capacity            *)
(* ParallelBatches has room.                                               *)
SemaphoreHasRoom == semaphore < ParallelBatches

(* The select of the batch goroutine: the context's error goes to          *)
(* errorsChan and the goroutine ends, or a slot of the semaphore is taken  *)
(* and processSingleBatch starts.                                          *)
AcquireSemaphore(b) ==
    /\ bpc[b] = "acquire"
    /\ \/ /\ ctxDone
          /\ errorsChan' = Append(errorsChan, "ctx")
          /\ bpc' = [bpc EXCEPT ![b] = "done"]
          /\ UNCHANGED semaphore
       \/ /\ SemaphoreHasRoom
          /\ semaphore' = semaphore + 1
          /\ bpc' = [bpc EXCEPT ![b] = "loop"]
          /\ UNCHANGED errorsChan
    /\ UNCHANGED <<mainVars, ctxWoken, ctxDone, driverLog, terminationChan,
                   result, opc, idx, batchResult, resultsChan, workerVars,
                   sendLog, writesAfterSend>>

(* ---------------- processSingleBatch (batch.go 113-153) --------------- *)
(* *orderResult: the value of the record of o at this moment.  What is     *)
(* appended to result.OrderResults is this copy, not the pointer that the  *)
(* TerminationRequest of o carries.                                        *)
OrderResultCopy(o) ==
    [OrderNumber |-> o, State |-> result[o].State,
     EndTime |-> result[o].EndTime, Duration |-> result[o].Duration,
     Error |-> result[o].Error]

(* Mutant of CallProcessOrder: ProcessOrder started with a go statement,   *)
(* the loop goes on to the next payload at once.                           *)
CallProcessOrderAsync(b, o) ==
    /\ opc' = [opc EXCEPT ![o] = "create"]
    /\ idx' = [idx EXCEPT ![b] = @ + 1]
    /\ UNCHANGED <<bpc, batchResult>>

(* bp.orderProcessor.ProcessOrder(ctx, pl): a synchronous call; the batch  *)
(* goroutine is inside ProcessOrder until it returns.                      *)
CallProcessOrder(b, o) ==
    /\ opc' = [opc EXCEPT ![o] = "create"]
    /\ bpc' = [bpc EXCEPT ![b] = "driving"]
    /\ UNCHANGED <<idx, batchResult>>

(* Top of the range loop: the loop is over, or the context is cancelled    *)
(* (the payload is counted failed and skipped), or ProcessOrder is called. *)
LoopHead(b) ==
    /\ bpc[b] = "loop"
    /\ IF idx[b] > BatchLen(b)
       THEN /\ bpc' = [bpc EXCEPT ![b] = "sendResult"]
            /\ UNCHANGED <<opc, idx, batchResult>>
       ELSE IF ctxDone
       THEN /\ batchResult' = [batchResult EXCEPT ![b].FailedOrders = @ + 1]
            /\ idx' = [idx EXCEPT ![b] = @ + 1]
            /\ UNCHANGED <<opc, bpc>>
       ELSE CallProcessOrder(b, PayloadAt(b, idx[b]))
    /\ UNCHANGED <<mainVars, ctxWoken, ctxDone, driverLog, semaphore,
                   terminationChan, result, resultsChan, errorsChan,
                   workerVars, sendLog, writesAfterSend>>

(* Mutant of OrderReturned: the loop is left at the first order that       *)
(* returned an error.                                                      *)
OrderReturnedStopOnError(b) ==
    LET o == PayloadAt(b, idx[b]) IN
    /\ bpc[b] = "driving"
    /\ opc[o] \in {"returnedOk", "returnedErr"}
    /\ batchResult' = [batchResult EXCEPT
          ![b].SuccessfulOrders = IF opc[o] = "returnedOk" THEN @ + 1 ELSE @,
          ![b].FailedOrders = IF opc[o] = "returnedErr" THEN @ + 1 ELSE @,
          ![b].OrderResults = Append(@, OrderResultCopy(o))]
    /\ opc' = [opc EXCEPT ![o] = "done"]
    /\ IF opc[o] = "returnedErr"
       THEN /\ bpc' = [bpc EXCEPT ![b] = "sendResult"]
            /\ UNCHANGED idx
       ELSE IF idx[b] < BatchLen(b)
       THEN /\ bpc' = [bpc EXCEPT ![b] = "pace"]
            /\ UNCHANGED idx
       ELSE /\ bpc' = [bpc EXCEPT ![b] = "loop"]
            /\ idx' = [idx EXCEPT ![b] = @ + 1]
    /\ UNCHANGED <<mainVars, ctxWoken, ctxDone, driverLog, semaphore,
                   terminationChan, result, resultsChan, errorsChan,
                   workerVars, sendLog, writesAfterSend>>

(* Mutant of OrderReturned: the pacing select follows every order, the     *)
(* last one too.                                                           *)
OrderReturnedAlwaysPace(b) ==
    LET o == PayloadAt(b, idx[b]) IN
    /\ bpc[b] = "driving"
    /\ opc[o] \in {"returnedOk", "returnedErr"}
    /\ batchResult' = [batchResult EXCEPT
          ![b].SuccessfulOrders = IF opc[o] = "returnedOk" THEN @ + 1 ELSE @,
          ![b].FailedOrders = IF opc[o] = "returnedErr" THEN @ + 1 ELSE @,
          ![b].OrderResults = Append(@, OrderResultCopy(o))]
    /\ opc' = [opc EXCEPT ![o] = "done"]
    /\ bpc' = [bpc EXCEPT ![b] = "pace"]
    /\ UNCHANGED idx
    /\ UNCHANGED <<mainVars, ctxWoken, ctxDone, driverLog, semaphore,
                   terminationChan, result, resultsChan, errorsChan,
                   workerVars, sendLog, writesAfterSend>>

(* ProcessOrder has returned: count the order, then the pacing select      *)
(* unless this was the last payload.                                       *)
OrderReturned(b) ==
    LET o == PayloadAt(b, idx[b]) IN
    /\ bpc[b] = "driving"
    /\ opc[o] \in {"returnedOk", "returnedErr"}
    /\ batchResult' = [batchResult EXCEPT
          ![b].SuccessfulOrders = IF opc[o] = "returnedOk" THEN @ + 1 ELSE @,
          ![b].FailedOrders = IF opc[o] = "returnedErr" THEN @ + 1 ELSE @,
          ![b].OrderResults = Append(@, OrderResultCopy(o))]
    /\ opc' = [opc EXCEPT ![o] = "done"]
    /\ IF idx[b] < BatchLen(b)
       THEN /\ bpc' = [bpc EXCEPT ![b] = "pace"]
            /\ UNCHANGED idx
       ELSE /\ bpc' = [bpc EXCEPT ![b] = "loop"]
            /\ idx' = [idx EXCEPT ![b] = @ + 1]
    /\ UNCHANGED <<mainVars, ctxWoken, ctxDone, driverLog, semaphore,
                   terminationChan, result, resultsChan, errorsChan,
                   workerVars, sendLog, writesAfterSend>>

(* The select between the context and BetweenCreates: on cancellation      *)
(* processSingleBatch returns its result as it is.                         *)
PaceBetweenCreates(b) ==
    /\ bpc[b] = "pace"
    /\ \/ /\ ctxDone
          /\ bpc' = [bpc EXCEPT ![b] = "sendResult"]
          /\ UNCHANGED idx
       \/ /\ bpc' = [bpc EXCEPT ![b] = "loop"]
          /\ idx' = [idx EXCEPT ![b] = @ + 1]
    /\ UNCHANGED <<mainVars, ctxWoken, ctxDone, driverLog, semaphore,
                   terminationChan, result, opc, batchResult, resultsChan,
                   errorsChan, workerVars, sendLog, writesAfterSend>>

(* resultsChan <- batchResult: the buffer holds len(batches) results, the  *)
(* send never blocks.                                                      *)
SendBatchResult(b) ==
    /\ bpc[b] = "sendResult"
    /\ resultsChan' = Append(resultsChan, [BatchID |-> b] @@ batchResult[b])
    /\ bpc' = [bpc EXCEPT ![b] = "release"]
    /\ UNCHANGED <<mainVars, ctxWoken, ctxDone, driverLog, semaphore,
                   terminationChan, result, opc, idx, batchResult,
                   errorsChan, workerVars, sendLog, writesAfterSend>>

(* Mutant of ReleaseSemaphore: the goroutine ends without the receive from *)
(* the semaphore.                                                          *)
ReleaseSemaphoreLeak(b) ==
    /\ bpc[b] = "release"
    /\ semaphore' = semaphore
    /\ bpc' = [bpc EXCEPT ![b] = "done"]
    /\ UNCHANGED <<mainVars, ctxWoken, ctxDone, driverLog, terminationChan,
                   result, opc, idx, batchResult, resultsChan, errorsChan,
                   workerVars, sendLog, writesAfterSend>>

(* <-semaphore, then the deferred wg.Done().                               *)
ReleaseSemaphore(b) ==
    /\ bpc[b] = "release"
    /\ semaphore' = semaphore - 1
    /\ bpc' = [bpc EXCEPT ![b] = "done"]
    /\ UNCHANGED <<mainVars, ctxWoken, ctxDone, driverLog, terminationChan,
                   result, opc, idx, batchResult, resultsChan, errorsChan,
                   workerVars, sendLog, writesAfterSend>>


(* --------------- ProcessBatches, the end (batch.go 84-110) ------------ *)
RECURSIVE SumOrders(_, _)
SumOrders(brs, field) ==
    IF brs = <<>> THEN 0
    ELSE Head(brs)[field] + SumOrders(Tail(brs), field)

(* Mutant of ProcessBatchesReturn: the channels are closed when the first  *)
(* batch goroutine is done, not when all are.                              *)
ProcessBatchesReturnEarly ==
    /\ phase = "process"
    /\ \E b \in Batches : bpc[b] = "done"
    /\ simResult' = [TotalOrders |-> SumOrders(resultsChan, "TotalOrders"),
                     SuccessfulOrders |->
                         SumOrders(resultsChan, "SuccessfulOrders"),
                     FailedOrders |-> SumOrders(resultsChan, "FailedOrders"),
                     BatchResults |-> resultsChan]
    /\ phase' = IF errorsChan # <<>> THEN "failed" ELSE "report"
    /\ UNCHANGED <<cfg, payloads, batches, validation, remoteCalls, closed,
                   genVars, ctxWoken, ctxDone, driverLog, terminationChan,
                   result, opc, batchVars, workerVars, sendLog,
                   writesAfterSend>>

(* wg.Wait() has returned and both channels are closed: the two range      *)
(* loops of ProcessBatches end.  The first adds up every BatchResult in    *)
(* the order of resultsChan; the second returns the first error of         *)
(* errorsChan, and without one the result goes to the report of            *)
(* runSimulation.  Nothing here waits for the TerminationWorker.           *)
ProcessBatchesReturn ==
    /\ phase = "process"
    /\ \A b \in Batches : bpc[b] = "done"
    /\ simResult' = [TotalOrders |-> SumOrders(resultsChan, "TotalOrders"),
                     SuccessfulOrders |->
                         SumOrders(resultsChan, "SuccessfulOrders"),
                     FailedOrders |-> SumOrders(resultsChan, "FailedOrders"),
                     BatchResults |-> resultsChan]
    /\ phase' = IF errorsChan # <<>> THEN "failed" ELSE "report"
    /\ UNCHANGED <<cfg, payloads, batches, validation, remoteCalls, closed,
                   genVars, ctxWoken, ctxDone, driverLog, terminationChan,
                   result, opc, batchVars, workerVars, sendLog,
                   writesAfterSend>>

(* ------------------ TerminationWorker (order.go 206-215) -------------- *)
(* BatchProcessor.Close is the only close of terminationChan; neither      *)
(* runSimulation nor ProcessBatches calls it, so closed stays FALSE in     *)
(* every behaviour of Spec.                                                *)
ChanClosed == closed

(* Mutant of WorkerStop: a worker that ranges over the channel and leaves  *)
(* only when it is closed, without a case for the context.                 *)
WorkerStopOnClose ==
    /\ wpc = "select"
    /\ ChanClosed
    /\ wpc' = "returned"
    /\ UNCHANGED <<mainVars, ctxWoken, ctxDone, driverLog, terminationChan,
                   result, opc, batchVars, wreq, recvLog, callLog, doneLog,
                   sendLog, writesAfterSend>>

(* The select of the worker loop.  Go picks among the cases that can       *)
(* proceed by a uniform pseudo-random choice: with the context cancelled   *)
(* and a request buffered, either case may run.                            *)
WorkerStop ==
    /\ wpc = "select"
    /\ ctxDone
    /\ wpc' = "returned"
    /\ UNCHANGED <<mainVars, ctxWoken, ctxDone, driverLog, terminationChan,
                   result, opc, batchVars, wreq, recvLog, callLog, doneLog,
                   sendLog, writesAfterSend>>

(* Mutant of WorkerReceive: the newest buffered request is taken first.    *)
WorkerReceiveNewest ==
    /\ wpc = "select"
    /\ Len(terminationChan) > 0
    /\ wreq' = terminationChan[Len(terminationChan)]
    /\ terminationChan' = SubSeq(terminationChan, 1, Len(terminationChan) - 1)
    /\ recvLog' = Append(recvLog, terminationChan[Len(terminationChan)])
    /\ wpc' = "apply"
    /\ UNCHANGED <<mainVars, ctxWoken, ctxDone, driverLog, result, opc,
                   batchVars, callLog, doneLog, sendLog, writesAfterSend>>

(* case req := <-terminationChan: the oldest buffered request is removed.  *)
WorkerReceive ==
    /\ wpc = "select"
    /\ Len(terminationChan) > 0
    /\ wreq' = Head(terminationChan)
    /\ terminationChan' = Tail(terminationChan)
    /\ recvLog' = Append(recvLog, Head(terminationChan))
    /\ wpc' = "apply"
    /\ UNCHANGED <<mainVars, ctxWoken, ctxDone, driverLog, result, opc,
                   batchVars, callLog, doneLog, sendLog, writesAfterSend>>

(* ----------------- processTermination (order.go 218-240) -------------- *)
(* The remote operation the switch on req.Action calls.                    *)
TerminationApi(action) ==
    IF action = ActionEnd THEN "EndOrder" ELSE "CancelOrder"

(* The state written when the remote call succeeded.                       *)
TerminatedState(action) ==
    IF action = ActionEnd THEN StateEnded ELSE StateCancelled

(* Mutant of WorkerApply: a failed remote call is repeated.                *)
WorkerApplyRetry ==
    /\ wpc = "apply"
    /\ \E out \in RemoteOutcomes :
        /\ callLog' = Append(callLog, [OrderID |-> wreq.OrderID,
                                       Api |-> TerminationApi(wreq.Action),
                                       Ok |-> (out = "ok")])
        /\ IF out = "ok"
           THEN /\ result' = [result EXCEPT
                      ![wreq.OrderID].State = TerminatedState(wreq.Action)]
                /\ wpc' = "setEndTime"
           ELSE /\ result' = [result EXCEPT
                      ![wreq.OrderID].State = StateFailed,
                      ![wreq.OrderID].Error = wreq.Action]
                /\ wpc' = "apply"
    /\ UNCHANGED <<mainVars, ctxWoken, ctxDone, driverLog, terminationChan,
                   opc, batchVars, wreq, recvLog, doneLog, sendLog,
                   writesAfterSend>>

(* The switch: one EndOrder or CancelOrder call, then the write of State   *)
(* (and of Error when the call failed).                                    *)
WorkerApply ==
    /\ wpc = "apply"
    /\ \E out \in RemoteOutcomes :
        /\ callLog' = Append(callLog, [OrderID |-> wreq.OrderID,
                                       Api |-> TerminationApi(wreq.Action),
                                       Ok |-> (out = "ok")])
        /\ IF out = "ok"
           THEN result' = [result EXCEPT
                   ![wreq.OrderID].State = TerminatedState(wreq.Action)]
           ELSE result' = [result EXCEPT
                   ![wreq.OrderID].State = StateFailed,
                   ![wreq.OrderID].Error = wreq.Action]
    /\ wpc' = "setEndTime"
    /\ UNCHANGED <<mainVars, ctxWoken, ctxDone, driverLog, terminationChan,
                   opc, batchVars, wreq, recvLog, doneLog, sendLog,
                   writesAfterSend>>

(* req.Result.EndTime = time.Now()                                         *)
WorkerSetEndTime ==
    /\ wpc = "setEndTime"
    /\ result' = [result EXCEPT ![wreq.OrderID].EndTime = "set"]
    /\ wpc' = "setDuration"
    /\ UNCHANGED <<mainVars, ctxWoken, ctxDone, driverLog, terminationChan,
                   opc, batchVars, wreq, recvLog, callLog, doneLog, sendLog,
                   writesAfterSend>>

(* req.Result.Duration = req.Result.EndTime.Sub(req.Result.StartTime),     *)
(* then processTermination returns to the worker loop.                     *)
WorkerSetDuration ==
    /\ wpc = "setDuration"
    /\ result' = [result EXCEPT
            ![wreq.OrderID].Duration = result[wreq.OrderID].EndTime]
    /\ doneLog' = Append(doneLog, wreq.OrderID)
    /\ wpc' = "select"
    /\ UNCHANGED <<mainVars, ctxWoken, ctxDone, driverLog, terminationChan,
                   opc, batchVars, wreq, recvLog, callLog, sendLog,
                   writesAfterSend>>

(* ---------------------------- specification --------------------------- *)
DriverNext(o) ==
    \/ CreateOrder(o)
    \/ WaitInitial(o)
    \/ PollAcceptance(o)
    \/ ActivateOrder(o)
    \/ WaitBeforeEnd(o)
    \/ WaitBeforeCancel(o)
    \/ SendEnd(o)
    \/ SendCancel(o)
    \/ SetPendingEnd(o)
    \/ SetPendingCancel(o)
    \/ SetEndTime(o)
    \/ SetDuration(o)

BatchNext(b) ==
    \/ AcquireSemaphore(b)
    \/ LoopHead(b)
    \/ OrderReturned(b)
    \/ PaceBetweenCreates(b)
    \/ SendBatchResult(b)
    \/ ReleaseSemaphore(b)

WorkerNext ==
    \/ WorkerStop
    \/ WorkerReceive
    \/ WorkerApply
    \/ WorkerSetEndTime
    \/ WorkerSetDuration

Next ==
    \/ Cancel
    \/ \E o \in Orders : DriverNext(o)
    \/ \E b \in Batches : BatchNext(b)
    \/ ProcessBatchesReturn
    \/ WorkerNext

Spec == Init /\ [][Next]_vars


(* The goroutines run: a goroutine that can take a step eventually takes   *)
(* one (the Go scheduler is fair to runnable goroutines and every remote   *)
(* call returns, the http client having a timeout).                        *)
(* What the remote service answers to a poll is not the program's to      *)
(* decide: the steps of a driver other than the answer to a GetDetails     *)
(* call are the ones that are bound to happen (the deadline of the poll    *)
(* loop among them).                                                       *)
DriverProgress(o) ==
    \/ CreateOrder(o)
    \/ WaitInitial(o)
    \/ PollCtx(o)
    \/ PollTimeout(o)
    \/ ActivateOrder(o)
    \/ WaitBeforeEnd(o)
    \/ WaitBeforeCancel(o)
    \/ SendEnd(o)
    \/ SendCancel(o)
    \/ SetPendingEnd(o)
    \/ SetPendingCancel(o)
    \/ SetEndTime(o)
    \/ SetDuration(o)

FairSpec ==
    /\ Spec
    /\ WF_vars(WorkerNext)
    /\ \A o \in Orders : WF_vars(DriverProgress(o))
    /\ \A b \in Batches : WF_vars(BatchNext(b))
    /\ WF_vars(ProcessBatchesReturn)

(* ------------- BatchProcessor.Close (batch.go 39-42) ------------------ *)
(* close(bp.terminationChan), by whoever holds the BatchProcessor.          *)
Close ==
    /\ ~closed
    /\ closed' = TRUE
    /\ UNCHANGED <<runVars, simResult, genVars, ctxWoken, ctxDone, driverLog,
                   terminationChan, result, opc, batchVars, workerVars,
                   sendLog, writesAfterSend>>

(* case req := <-terminationChan on the closed and drained channel: the    *)
(* receive has no second result to test, it proceeds at once with the zero *)
(* TerminationRequest{OrderID: "", Action: "", Result: nil}, which goes to *)
(* processTermination like any other.                                      *)
WorkerReceiveZero ==
    /\ wpc = "select"
    /\ ChanClosed
    /\ Len(terminationChan) = 0
    /\ wreq' = NoReq
    /\ wpc' = "applyZero"
    /\ UNCHANGED <<mainVars, ctxWoken, ctxDone, driverLog, terminationChan,
                   result, opc, batchVars, recvLog, callLog, doneLog, sendLog,
                   writesAfterSend>>

(* processTermination of the zero request: no case of the switch matches   *)
(* Action "", so no remote call is made, and req.Result.EndTime =          *)
(* time.Now() (order.go 238) writes through the nil Result: the goroutine  *)
(* panics, and the process with it.                                        *)
WorkerApplyZero ==
    /\ wpc = "applyZero"
    /\ wpc' = "panicked"
    /\ UNCHANGED <<mainVars, ctxWoken, ctxDone, driverLog, terminationChan,
                   result, opc, batchVars, wreq, recvLog, callLog, doneLog,
                   sendLog, writesAfterSend>>

(* p.terminationChan <- req on the closed channel: a send on a closed      *)
(* channel panics.                                                         *)
SendOnClosed(o) ==
    /\ opc[o] \in {"sendEnd", "sendCancel"}
    /\ ChanClosed
    /\ opc' = [opc EXCEPT ![o] = "panicked"]
    /\ UNCHANGED <<mainVars, ctxWoken, ctxDone, driverLog, terminationChan,
                   result, batchVars, workerVars, sendLog, writesAfterSend>>

(* The engine with a caller of Close.                                      *)
CloseNext ==
    \/ Next
    \/ Close
    \/ WorkerReceiveZero
    \/ WorkerApplyZero
    \/ \E o \in Orders : SendOnClosed(o)

CloseSpec == Init /\ [][CloseNext]_vars

(* ------------------- runSimulation (main.go 141-221) ------------------ *)
(* The variables of ProcessBatches, its goroutines and the worker.         *)
engineVars == <<simResult, ctxDone, ctxWoken, closed, driverLog, semaphore,
                terminationChan,
                result, opc, bpc, idx, batchResult, wpc, wreq, resultsChan,
                errorsChan, sendLog, recvLog, callLog, doneLog,
                writesAfterSend>>

(* runSimulation is entered with a configuration.  GenerateAll and         *)
(* Distribute read TotalOrders, ActivatedCount and BatchSize from it;      *)
(* they are exported and are also called (by the tests) with               *)
(* configurations that Config.Validate was not applied to, so             *)
(* TotalOrders 0 is among the inputs.                                      *)
RunInit ==
    /\ cfg \in {c \in [TotalOrders : 0..MaxTotalOrders,
                        ActivatedCount : 0..MaxTotalOrders,
                        BatchSize : 1..MaxBatchSize] :
                    c.ActivatedCount <= c.TotalOrders}
    /\ phase = "generate"
    /\ payloads = <<>>
    /\ batches = <<>>
    /\ validation = "none"
    /\ remoteCalls = <<>>
    /\ simResult = NewSimulationResult
    /\ ctxDone = FALSE
    /\ ctxWoken = {}
    /\ closed = FALSE
    /\ driverLog = [o \in Orders |-> NewDriverLog]
    /\ genIn = NoPayloadData
    /\ gen = NewGenerator
    /\ placed = <<>>
    /\ req = NoRequest
    /\ semaphore = 0
    /\ terminationChan = <<>>
    /\ result = [o \in Orders |-> NewOrderResult]
    /\ opc = [o \in Orders |-> "idle"]
    /\ bpc = [b \in Batches |-> "acquire"]
    /\ idx = [b \in Batches |-> 1]
    /\ batchResult = [b \in Batches |-> NewBatchResult(b)]
    /\ wpc = "select"
    /\ wreq = NoReq
    /\ resultsChan = <<>>
    /\ errorsChan = <<>>
    /\ sendLog = <<>>
    /\ recvLog = <<>>
    /\ callLog = <<>>
    /\ doneLog = <<>>
    /\ writesAfterSend = [o \in Orders |-> {}]

(* Phase 1: payloads := generator.GenerateAll()                            *)
Phase1Generate ==
    /\ phase = "generate"
    /\ payloads' = GenerateAll(cfg.TotalOrders, cfg.ActivatedCount)
    /\ phase' = "distribute"
    /\ UNCHANGED <<cfg, batches, validation, remoteCalls, engineVars, genVars>>

(* Phase 2: batches := distributor.Distribute(payloads)                    *)
Phase2Distribute ==
    /\ phase = "distribute"
    /\ batches' = Distribute(payloads, cfg.BatchSize)
    /\ phase' = "validate"
    /\ UNCHANGED <<cfg, payloads, validation, remoteCalls, engineVars, genVars>>

(* Mutant of Phase2Validate: the error of ValidateBatches is recorded but  *)
(* the run goes on.                                                        *)
Phase2ValidateAndGoOn ==
    /\ phase = "validate"
    /\ validation' = ValidateBatches(batches)
    /\ phase' = "auth"
    /\ UNCHANGED <<cfg, payloads, batches, remoteCalls, engineVars, genVars>>

(* Phase 2: if err := payload.ValidateBatches(batches); err != nil the run *)
(* returns "batch validation failed".                                      *)
Phase2Validate ==
    /\ phase = "validate"
    /\ validation' = ValidateBatches(batches)
    /\ phase' = IF ValidateBatches(batches) = "nil"
                THEN "auth" ELSE "failedValidation"
    /\ UNCHANGED <<cfg, payloads, batches, remoteCalls, engineVars, genVars>>

(* Phase 3: authManager.GetToken(ctx), the first remote call of the run;   *)
(* on an error the run returns.  Phases 4 and 5 make no remote call.       *)
Phase3GetToken ==
    /\ phase = "auth"
    /\ remoteCalls' = Append(remoteCalls, "token")
    /\ \E out \in {"ok", "err"} :
          phase' = IF out = "ok" THEN "process" ELSE "failedAuth"
    /\ UNCHANGED <<cfg, payloads, batches, validation, engineVars, genVars>>

(* Phase 6 seen from runSimulation: while ProcessBatches runs, its drivers *)
(* and the worker issue create, poll, activate, end and cancel calls.      *)
Phase6RemoteCall ==
    /\ phase = "process"
    /\ Len(remoteCalls) <= MaxRemoteCalls
    /\ \E c \in {"create", "poll", "activate", "end", "cancel"} :
          remoteCalls' = Append(remoteCalls, c)
    /\ UNCHANGED <<cfg, phase, payloads, batches, validation, engineVars,
                   genVars>>

(* Phase 6: ProcessBatches returns, with an error or to the report.        *)
Phase6Return ==
    /\ phase = "process"
    /\ \E out \in {"ok", "err"} :
          phase' = IF out = "ok" THEN "report" ELSE "failed"
    /\ UNCHANGED <<cfg, payloads, batches, validation, remoteCalls,
                   engineVars, genVars>>

RunNext ==
    \/ Phase1Generate
    \/ Phase2Distribute
    \/ Phase2Validate
    \/ Phase3GetToken
    \/ Phase6RemoteCall
    \/ Phase6Return

RunSpec == RunInit /\ [][RunNext]_vars

(* ------------- generatePolyline (types.go 186-242), as steps ---------- *)
(* The generator is made for one payload data and asked for polylines,     *)
(* one call of generatePolyline per payload; a call goes round its loop    *)
(* until a candidate is inside the boundary.  Each turn of the loop is a   *)
(* step: the turn that returns (PlaceCandidate) or the turn that rejects   *)
(* the candidate and moves on (NextRow).  placed is the list of the        *)
(* geometries returned so far, each with the position it was made at.      *)
GenInit ==
    /\ cfg \in [TotalOrders : {MaxPolylines},
                ActivatedCount : 0..MaxPolylines, BatchSize : {1}]
    /\ phase = "generate"
    /\ payloads = <<>>
    /\ batches = <<>>
    /\ validation = "none"
    /\ remoteCalls = <<>>
    /\ simResult = NewSimulationResult
    /\ ctxDone = FALSE
    /\ ctxWoken = {}
    /\ closed = FALSE
    /\ driverLog = [o \in Orders |-> NewDriverLog]
    /\ genIn \in GenInputs
    /\ gen = NewGenerator
    /\ placed = <<>>
    /\ req = NoRequest
    /\ semaphore = 0
    /\ terminationChan = <<>>
    /\ result = [o \in Orders |-> NewOrderResult]
    /\ opc = [o \in Orders |-> "idle"]
    /\ bpc = [b \in Batches |-> "acquire"]
    /\ idx = [b \in Batches |-> 1]
    /\ batchResult = [b \in Batches |-> NewBatchResult(b)]
    /\ wpc = "select"
    /\ wreq = NoReq
    /\ resultsChan = <<>>
    /\ errorsChan = <<>>
    /\ sendLog = <<>>
    /\ recvLog = <<>>
    /\ callLog = <<>>
    /\ doneLog = <<>>
    /\ writesAfterSend = [o \in Orders |-> {}]

(* A call of generatePolyline is in progress or about to be made: the      *)
(* loops of GenerateAll have not reached totalOrders.                      *)
GenCalled == Len(placed) < MaxPolylines

(* The type GenerateAll asks generatePayload for at index: activate in     *)
(* the first loop (index < activatedCount), accepted in the second.        *)
TypeAtIndex(index) ==
    IF index < cfg.ActivatedCount THEN TypeActivate ELSE TypeAccepted

(* payloads = append(payloads, g.generatePayload(i, type)), the call of    *)
(* generatePolyline in it having returned geometry.                        *)
AppendPayload(geometry) ==
    payloads' = Append(payloads,
                       generatePayload(Len(payloads),
                                       TypeAtIndex(Len(payloads)), geometry))

(* The geometry returned, with the position it was generated at.           *)
Placement(g, coords) ==
    [row |-> g.currentRow, col |-> g.currentCol, direction |-> g.direction,
     coords |-> coords]

(* Mutant of PlaceCandidate: the column is advanced by two.                *)
PlaceCandidateSkip ==
    /\ GenCalled
    /\ isPolylineInBoundary(Candidate(genIn, gen), genIn.boundary)
    /\ gen' = [gen EXCEPT
                  !.maxColInRow = IF gen.currentCol > @ THEN gen.currentCol
                                  ELSE @,
                  !.currentCol = IF gen.direction = 1 THEN @ + 2 ELSE @ - 2]
    /\ placed' = Append(placed, Placement(gen, Candidate(genIn, gen)))
    /\ AppendPayload(Candidate(genIn, gen))
    /\ UNCHANGED <<cfg, phase, batches, validation, remoteCalls, engineVars,
                   genIn, req>>

(* Mutant of PlaceCandidate: the column is not advanced after the return.  *)
PlaceCandidateStay ==
    /\ GenCalled
    /\ isPolylineInBoundary(Candidate(genIn, gen), genIn.boundary)
    /\ gen' = [gen EXCEPT
                  !.maxColInRow = IF gen.currentCol > @ THEN gen.currentCol
                                  ELSE @]
    /\ placed' = Append(placed, Placement(gen, Candidate(genIn, gen)))
    /\ AppendPayload(Candidate(genIn, gen))
    /\ UNCHANGED <<cfg, phase, batches, validation, remoteCalls, engineVars,
                   genIn, req>>

(* if g.isPolylineInBoundary(coordinates): maxColInRow follows the column, *)
(* the column is advanced in the direction, the candidate is returned.     *)
PlaceCandidate ==
    /\ GenCalled
    /\ isPolylineInBoundary(Candidate(genIn, gen), genIn.boundary)
    /\ gen' = [gen EXCEPT
                  !.maxColInRow = IF gen.currentCol > @ THEN gen.currentCol
                                  ELSE @,
                  !.currentCol = IF gen.direction = 1 THEN @ + 1 ELSE @ - 1]
    /\ placed' = Append(placed, Placement(gen, Candidate(genIn, gen)))
    /\ AppendPayload(Candidate(genIn, gen))
    /\ UNCHANGED <<cfg, phase, batches, validation, remoteCalls, engineVars,
                   genIn, req>>

(* Mutant of NextRow: the row is advanced without flipping the direction.  *)
NextRowSameDirection ==
    /\ GenCalled
    /\ gen.currentRow < MaxRow
    /\ ~isPolylineInBoundary(Candidate(genIn, gen), genIn.boundary)
    /\ gen' = [currentRow |-> gen.currentRow + 1,
               direction |-> gen.direction,
               currentCol |-> IF gen.direction = 1 THEN 0
                              ELSE gen.maxColInRow,
               maxColInRow |-> 0 - 1]
    /\ UNCHANGED <<runVars, engineVars, genIn, placed, req>>

(* The candidate does not fit: currentRow++, direction *= -1, the column   *)
(* is 0 for the new direction +1 and maxColInRow for -1, maxColInRow is    *)
(* reset to -1; the loop goes round.  The loop has no other exit than the  *)
(* return of PlaceCandidate; the rows are followed down to MaxRow.         *)
NextRow ==
    /\ GenCalled
    /\ gen.currentRow < MaxRow
    /\ ~isPolylineInBoundary(Candidate(genIn, gen), genIn.boundary)
    /\ gen' = [currentRow |-> gen.currentRow + 1,
               direction |-> 0 - gen.direction,
               currentCol |-> IF 0 - gen.direction = 1 THEN 0
                              ELSE gen.maxColInRow,
               maxColInRow |-> 0 - 1]
    /\ UNCHANGED <<runVars, engineVars, genIn, placed, req>>

(* return payloads: both loops of GenerateAll are done.                    *)
GenerateAllReturn ==
    /\ phase = "generate"
    /\ Len(payloads) = cfg.TotalOrders
    /\ phase' = "distribute"
    /\ UNCHANGED <<cfg, payloads, batches, validation, remoteCalls,
                   engineVars, genVars>>

GenNext ==
    \/ PlaceCandidate
    \/ NextRow
    \/ GenerateAllReturn

GenSpec == GenInit /\ [][GenNext]_vars

(* ---------------- Client.doRequest (models.go 308-338) ---------------- *)
(* One call of doRequest, a step for each turn of its loop, for the wait   *)
(* in the select and for the request.  Time is counted in units of the     *)
(* backoff's resolution.                                                   *)
MaxRetryMax == 2
MaxBackoff == 2

(* 1 << n                                                                  *)
RECURSIVE ShiftLeftOne(_)
ShiftLeftOne(n) == IF n = 0 THEN 1 ELSE 2 * ShiftLeftOne(n - 1)

(* Mutant of WaitTime: the same wait before every retry.                   *)
WaitTimeConstant(backoff, attempt) == backoff

(* waitTime := c.backoff * time.Duration(1<<uint(attempt-1))               *)
WaitTime(backoff, attempt) == backoff * ShiftLeftOne(attempt - 1)

(* The status codes a response can carry that executeRequest turns into an *)
(* *HTTPError (StatusCode >= 400), around the limits doRequest tests.      *)
StatusCodes == {400, 404, 429, 499, 500}

(* What executeRequest can return: nil, an *HTTPError, or another error    *)
(* (marshalling, transport, reading, decoding).  With the context ended    *)
(* the http client fails the request.                                      *)
ExecuteOutcomes(ctxEnded) ==
    IF ctxEnded THEN {OtherError}
    ELSE {NilError, OtherError} \cup {HTTPError(c) : c \in StatusCodes}

(* httpErr.StatusCode >= 400 && < 500 && != 429, for an *HTTPError         *)
IsClientErrorNotRetried(err) ==
    /\ err.type = "HTTPError"
    /\ err.StatusCode >= 400
    /\ err.StatusCode < 500
    /\ err.StatusCode # 429

ReqInit ==
    /\ cfg = [TotalOrders |-> TotalOrders, ActivatedCount |-> ActivatedCount,
              BatchSize |-> BatchSize]
    /\ phase = "request"
    /\ payloads = <<>>
    /\ batches = <<>>
    /\ validation = "none"
    /\ remoteCalls = <<>>
    /\ simResult = NewSimulationResult
    /\ ctxDone = FALSE
    /\ ctxWoken = {}
    /\ closed = FALSE
    /\ driverLog = [o \in Orders |-> NewDriverLog]
    /\ genIn = NoPayloadData
    /\ gen = NewGenerator
    /\ placed = <<>>
    /\ req \in {NewRequest(m, d) : m \in 0..MaxRetryMax, d \in 0..MaxBackoff}
    /\ semaphore = 0
    /\ terminationChan = <<>>
    /\ result = [o \in Orders |-> NewOrderResult]
    /\ opc = [o \in Orders |-> "idle"]
    /\ bpc = [b \in Batches |-> "acquire"]
    /\ idx = [b \in Batches |-> 1]
    /\ batchResult = [b \in Batches |-> NewBatchResult(b)]
    /\ wpc = "select"
    /\ wreq = NoReq
    /\ resultsChan = <<>>
    /\ errorsChan = <<>>
    /\ sendLog = <<>>
    /\ recvLog = <<>>
    /\ callLog = <<>>
    /\ doneLog = <<>>
    /\ writesAfterSend = {}

reqOthers == <<runVars, engineVars, genIn, gen, placed>>

(* for attempt := 0; attempt <= c.retryMax; attempt++ { if attempt > 0 {   *)
(* waitTime := ...; select {: the loop's test, and for a retry the entry   *)
(* into the select, where the timer is started; a context that has ended   *)
(* is ready there and then.  After the loop: the "failed after" error.     *)
LoopTest ==
    /\ req.pc = "loop"
    /\ req' =
         IF req.attempt > req.retryMax
         THEN [req EXCEPT !.pc = "returned", !.ret = FailedAfterAttempts]
         ELSE IF req.attempt > 0
         THEN [req EXCEPT
                 !.pc = "backoff",
                 !.waitTime = WaitTime(req.backoff, req.attempt),
                 !.waited = 0,
                 !.woken = req.ctxDone
                           /\ WaitTime(req.backoff, req.attempt) > 0]
         ELSE [req EXCEPT !.pc = "execute"]
    /\ UNCHANGED reqOthers

(* Time passes while doRequest is in the select.                           *)
TimePasses ==
    /\ req.pc = "backoff"
    /\ ~req.woken
    /\ req.waited < req.waitTime
    /\ req' = [req EXCEPT !.waited = @ + 1]
    /\ UNCHANGED reqOthers

(* case <-ctx.Done(): return ctx.Err()                                     *)
BackoffCtxDone ==
    /\ req.pc = "backoff"
    /\ req.ctxDone
    /\ req' = [req EXCEPT !.pc = "returned", !.ret = CtxError]
    /\ UNCHANGED reqOthers

(* case <-time.After(waitTime): the timer has fired, the select is left    *)
(* for the request.  A goroutine the context has woken does not come here. *)
BackoffTimer ==
    /\ req.pc = "backoff"
    /\ ~req.woken
    /\ req.waited = req.waitTime
    /\ req' = [req EXCEPT !.pc = "execute",
                          !.waits = Append(@, req.waited)]
    /\ UNCHANGED reqOthers

(* err := c.executeRequest(...); nil is returned; an error is kept as      *)
(* lastErr, a 4xx other than 429 is returned, anything else goes round     *)
(* the loop with attempt++.                                                *)
ExecuteRequest ==
    /\ req.pc = "execute"
    /\ \E err \in ExecuteOutcomes(req.ctxDone) :
         LET made == [req EXCEPT !.outcomes = Append(@, err)]
         IN req' =
              IF err = NilError
              THEN [made EXCEPT !.pc = "returned", !.ret = NilError]
              ELSE IF IsClientErrorNotRetried(err)
              THEN [made EXCEPT !.pc = "returned", !.lastErr = err,
                                !.ret = err]
              ELSE [made EXCEPT !.pc = "loop", !.lastErr = err,
                                !.attempt = @ + 1]
    /\ UNCHANGED reqOthers

(* The caller's context ends.  A doRequest parked in the select with the   *)
(* timer still running is woken by it.                                     *)
RequestCancel ==
    /\ req.pc \in {"loop", "backoff", "execute"}
    /\ ~req.ctxDone
    /\ LET parked == req.pc = "backoff" /\ req.waited < req.waitTime
       IN req' = [req EXCEPT
                    !.ctxDone = TRUE,
                    !.woken = parked,
                    !.cancelledAt = IF parked THEN Len(req.outcomes)
                                    ELSE @]
    /\ UNCHANGED reqOthers

ReqNext ==
    \/ LoopTest
    \/ TimePasses
    \/ BackoffCtxDone
    \/ BackoffTimer
    \/ ExecuteRequest
    \/ RequestCancel

ReqSpec == ReqInit /\ [][ReqNext]_vars

(* ------------------------------ properties ---------------------------- *)
Rank(st) ==
    CASE st = StateNone -> 0
      [] st = StateCreated -> 1
      [] st = StateAccepted -> 2
      [] st = StateActivated -> 3
      [] st \in {StatePendingEnd, StatePendingCancel} -> 4
      [] st \in {StateEnded, StateCancelled, StateFailed} -> 5

(* C1: the State of every OrderResult only moves forward along            *)
(* Created -> Accepted -> Activated -> PendingEnd/PendingCancel ->         *)
(* Ended/Cancelled/Failed; a terminal state is never replaced by an        *)
(* earlier one.                                                            *)
C1_StateOnlyMovesForward ==
    [][\A o \in Orders : Rank(result'[o].State) >= Rank(result[o].State)]_vars

(* C2: once the TerminationRequest of an order has been sent, its driver   *)
(* writes no field of the OrderResult any more.                            *)
C2_NoDriverWriteAfterSend ==
    \A o \in Orders : writesAfterSend[o] = {}

(* The batch goroutines that hold a slot of the semaphore.                 *)
Admitted == {b \in Batches :
                bpc[b] \in {"loop", "driving", "pace", "sendResult", "release"}}

(* C3: at every moment at most ParallelBatches batch goroutines are        *)
(* admitted and not yet released.                                          *)
C3_AtMostParallelBatches ==
    Cardinality(Admitted) <= ParallelBatches

C3_Witness ==
    /\ Cardinality(Admitted) = ParallelBatches
    /\ \E b \in Batches : bpc[b] = "acquire"
    /\ \E b \in Batches : bpc[b] = "driving"

InDriver(o) == opc[o] \notin {"idle", "done"}

(* C4: within one batch ProcessOrder runs for one order at a time and in   *)
(* payload order: an order is started only when ProcessOrder has returned  *)
(* for every earlier payload of its batch.                                 *)
C4_SequentialWithinBatch ==
    \A b \in Batches : \A i, j \in 1..BatchLen(b) :
        i < j =>
            /\ ~(InDriver(PayloadAt(b, i)) /\ InDriver(PayloadAt(b, j)))
            /\ (opc[PayloadAt(b, j)] # "idle" => opc[PayloadAt(b, i)] = "done")

C4_Witness ==
    \E b \in Batches : \E i \in 1..(BatchLen(b) - 1) :
        /\ opc[PayloadAt(b, i)] = "done"
        /\ opc[PayloadAt(b, i + 1)] = "waitInitial"

(* C5: every request the worker receives causes exactly one remote call,   *)
(* EndOrder for action end and CancelOrder for action cancel, and no       *)
(* request is received or applied twice.                                   *)
C5_ExactlyOneCallPerRequest ==
    /\ \A i, j \in 1..Len(recvLog) : i # j => recvLog[i] # recvLog[j]
    /\ Len(callLog) = IF wpc = "apply" THEN Len(recvLog) - 1 ELSE Len(recvLog)
    /\ \A k \in 1..Len(callLog) :
        /\ k <= Len(recvLog)
        /\ callLog[k].OrderID = recvLog[k].OrderID
        /\ recvLog[k].Action = ActionEnd => callLog[k].Api = "EndOrder"
        /\ recvLog[k].Action = ActionCancel => callLog[k].Api = "CancelOrder"

C5_Witness ==
    /\ Len(doneLog) >= 2
    /\ \E k \in 1..Len(callLog) : callLog[k].Api = "EndOrder" /\ ~callLog[k].Ok
    /\ \E k \in 1..Len(callLog) : callLog[k].Api = "CancelOrder"

C7_SuccessEndsTerminated ==
    \A k \in 1..Len(doneLog) :
        callLog[k].Ok =>
            /\ result[doneLog[k]].State =
                  IF callLog[k].Api = "EndOrder" THEN StateEnded
                  ELSE StateCancelled
            /\ result[doneLog[k]].EndTime # "zero"
            /\ result[doneLog[k]].Duration # "zero"
            /\ result[doneLog[k]].Error = "nil"

(* C8: when the remote call of a request failed, the OrderResult is Failed *)
(* with an error, the call is not repeated, the worker goes on with the    *)
(* next request, and no batch counter is touched.                          *)
C8_FailureSetsFailed ==
    \A k \in 1..Len(doneLog) :
        ~callLog[k].Ok =>
            /\ result[doneLog[k]].State = StateFailed
            /\ result[doneLog[k]].Error # "nil"

(* C9: once the context is cancelled the worker receives no further        *)
(* request: what is in the channel then stays there.                       *)
C9_NoReceiveAfterStop ==
    [][ctxDone => recvLog' = recvLog]_vars

(* C10: after the context is cancelled the worker eventually returns.      *)
C10_WorkerReturnsAfterCancel ==
    ctxDone ~> (wpc = "returned")

C10_Witness ==
    /\ wpc = "returned"
    /\ Len(terminationChan) > 0

PendingState(action) ==
    IF action = ActionEnd THEN StatePendingEnd ELSE StatePendingCancel

C12_BlockedSendObservesCancel ==
    \A o \in Orders :
        (ctxDone /\ opc[o] \in {"sendEnd", "sendCancel"}) =>
            ENABLED DriverNext(o)

FailedOnTheirOwn(b) ==
    {i \in 1..BatchLen(b) :
        /\ opc[PayloadAt(b, i)] \in {"returnedErr", "done"}
        /\ result[PayloadAt(b, i)].Error \in
              {"create", "timeout", "getDetails", "orderFailed", "activate"}}

(* C14: an order whose driver was aborted by the cancellation is not       *)
(* Failed, and FailedOrders counts no order because of the cancellation.   *)
C14_CancelledIsNotFailed ==
    /\ \A o \in Orders :
          result[o].Error = "ctx" => result[o].State # StateFailed
    /\ \A b \in Batches :
          batchResult[b].FailedOrders <= Cardinality(FailedOnTheirOwn(b))

(* createOrder has been called for o.                                      *)
CreateAttempted(o) == opc[o] \notin {"idle", "create"}

(* C15: in a run without cancellation createOrder is eventually called     *)
(* for every payload of every batch, whatever failed before.               *)
C15_EveryPayloadIsAttempted ==
    <>(ctxDone \/ \A o \in Orders : CreateAttempted(o))

C15_Witness ==
    /\ ~ctxDone
    /\ \A o \in Orders : CreateAttempted(o)
    /\ \E b \in Batches : \E i \in 1..(BatchLen(b) - 1) :
          result[PayloadAt(b, i)].Error \in {"create", "timeout", "activate"}

(* C16: without cancellation ProcessBatches has not returned its result    *)
(* while a request sent to terminationChan is still not applied.           *)
C16_NoReturnWhileRequestsPending ==
    (phase = "report" /\ ~ctxDone) => Len(doneLog) = Len(sendLog)

(* C17: a remote call is made only after the payloads were generated, the  *)
(* batches distributed and validated without error; after a failed         *)
(* validation the run has ended and no remote call was made.               *)
C17_NoRemoteCallBeforeValidation ==
    /\ remoteCalls # <<>> =>
          /\ phase \notin {"generate", "distribute", "validate",
                            "failedValidation"}
          /\ payloads = GenerateAll(cfg.TotalOrders, cfg.ActivatedCount)
          /\ batches = Distribute(payloads, cfg.BatchSize)
          /\ validation = "nil"
    /\ validation \notin {"none", "nil"} =>
          /\ phase = "failedValidation"
          /\ remoteCalls = <<>>

C17_Witness ==
    /\ Len(remoteCalls) > MaxRemoteCalls
    /\ remoteCalls[1] = "token"
    /\ Len(batches) >= 2

(* The number of payloads of type t in a list.                             *)
CountType(pls, t) == Cardinality({k \in 1..Len(pls) : pls[k].Type = t})

(* C18: GenerateAll with totalOrders N and activatedCount A, 0 <= A <= N,  *)
(* returns N payloads, A of type activate and N - A of type accepted.      *)
C18_GenerateAllCounts ==
    (phase # "generate" /\ cfg.ActivatedCount <= cfg.TotalOrders) =>
        /\ Len(payloads) = cfg.TotalOrders
        /\ CountType(payloads, TypeActivate) = cfg.ActivatedCount
        /\ CountType(payloads, TypeAccepted) =
              cfg.TotalOrders - cfg.ActivatedCount

C18_Witness ==
    /\ phase = "distribute"
    /\ cfg.ActivatedCount > 0
    /\ cfg.ActivatedCount < cfg.TotalOrders - 1
    /\ Len(payloads) = cfg.TotalOrders

(* The payloads of a list of batches, one batch after the other.           *)
RECURSIVE ConcatPayloads(_)
ConcatPayloads(bs) ==
    IF bs = <<>> THEN <<>>
    ELSE Head(bs).Payloads \o ConcatPayloads(Tail(bs))

(* C19: Distribute of a list of L >= 1 payloads with batch size B >= 1     *)
(* returns ceil(L/B) batches with the IDs 1..ceil(L/B); their payloads in  *)
(* order are the list; every batch but the last holds B payloads and none  *)
(* is empty.                                                               *)
C19_DistributeShape ==
    (phase \notin {"generate", "distribute"} /\ Len(payloads) >= 1) =>
        /\ Len(batches) =
              (Len(payloads) + cfg.BatchSize - 1) \div cfg.BatchSize
        /\ \A k \in 1..Len(batches) :
              /\ batches[k].ID = k
              /\ Len(batches[k].Payloads) >= 1
              /\ k < Len(batches) =>
                    Len(batches[k].Payloads) = cfg.BatchSize
        /\ ConcatPayloads(batches) = payloads

C19_Witness ==
    /\ phase = "validate"
    /\ Len(batches) >= 2
    /\ Len(batches[Len(batches)].Payloads) < cfg.BatchSize
    /\ cfg.BatchSize >= 2

(* C20: Distribute of the empty list followed by ValidateBatches gives an  *)
(* error, and the run goes on to its remote calls only with at least one   *)
(* batch and no empty batch.                                               *)
C20_EmptyListFailsValidation ==
    /\ (payloads = <<>> /\ validation # "none") => validation # "nil"
    /\ phase \in {"auth", "process", "report", "failedAuth", "failed"} =>
          /\ Len(batches) >= 1
          /\ \A k \in 1..Len(batches) : Len(batches[k].Payloads) >= 1

C20_Witness ==
    /\ cfg.TotalOrders = 0
    /\ phase = "failedValidation"
    /\ validation = "no batches to validate"
    /\ remoteCalls = <<>>

(* ------------------- the driver's flows: C25-C29 ---------------------- *)
(* The requests sent for order o.                                          *)
RequestsOf(o) == {k \in 1..Len(sendLog) : sendLog[k].OrderID = o}

(* C25: when the create call fails ProcessOrder returns the error with the *)
(* order Failed and the error recorded; no poll and no activate call is    *)
(* made for the order, no request is enqueued for it, and the create call  *)
(* is not repeated.                                                        *)
C25_CreateFailureIsTerminal ==
    \A o \in Orders :
        /\ driverLog[o].create <= 1
        /\ result[o].Error = "create" =>
              /\ result[o].State = StateFailed
              /\ opc[o] \in {"returnedErr", "done"}
              /\ driverLog[o].create = 1
              /\ driverLog[o].lastStatus = "none"
              /\ driverLog[o].activate = 0
              /\ RequestsOf(o) = {}

(* An order whose create failed was counted, and the next order of the     *)
(* batch was attempted.                                                    *)
C25_Witness ==
    \E o, n \in Orders :
        /\ result[o].Error = "create"
        /\ opc[o] = "done"
        /\ n # o
        /\ driverLog[n].create = 1

(* The position of the driver of o is past waitForAcceptance.              *)
PastAcceptance(o) ==
    opc[o] \in {"beforeActivate", "beforeEnd", "beforeCancel", "sendEnd",
                "sendCancel", "setPendingEnd", "setPendingCancel",
                "setEndTime", "setDuration", "returnedOk"}

(* C26: no GetDetails call is made before the initial interval has         *)
(* elapsed; waitForAcceptance returns success only on a poll that reported *)
(* Accepted; a poll that reports Failed or fails in transport ends the     *)
(* wait at once, no further poll being made; and when the wait has failed  *)
(* (a failed poll, or the timeout) the order is Failed and no request is   *)
(* enqueued for it.                                                        *)
C26_WaitForAcceptanceOutcomes ==
    /\ [](\A o \in Orders :
            /\ opc[o] \in {"idle", "create", "waitInitial"} =>
                  driverLog[o].lastStatus = "none"
            /\ PastAcceptance(o) => driverLog[o].lastStatus = "Accepted"
            /\ driverLog[o].lastStatus \in {"Failed", "err"} =>
                  opc[o] \in {"returnedErr", "done"}
            /\ result[o].Error \in {"orderFailed", "getDetails", "timeout"} =>
                  /\ result[o].State = StateFailed
                  /\ opc[o] \in {"returnedErr", "done"}
                  /\ RequestsOf(o) = {})
    /\ [][\A o \in Orders :
            /\ driverLog'[o].lastStatus # driverLog[o].lastStatus =>
                  opc[o] = "poll"
            /\ (opc[o] = "poll" /\ opc'[o] # "poll") =>
                  \/ /\ opc'[o] = "returnedErr"
                     /\ result'[o].State = StateFailed
                     /\ result'[o].Error =
                          CASE driverLog'[o].lastStatus = "Failed"
                                  -> "orderFailed"
                            [] driverLog'[o].lastStatus = "err"
                                  -> "getDetails"
                            [] OTHER -> IF ctxDone THEN "ctx" ELSE "timeout"
                  \/ /\ driverLog'[o].lastStatus = "Accepted"
                     /\ result'[o].State = StateAccepted
                     /\ PastAcceptance(o)']_vars

(* One order was failed by a poll reporting Failed, another was accepted   *)
(* after a pending poll and had its request sent.                          *)
C26_Witness ==
    \E o, n \in Orders :
        /\ driverLog[o].lastStatus = "Failed"
        /\ result[o].Error = "orderFailed"
        /\ opc[o] = "done"
        /\ driverLog[n].lastStatus = "Accepted"
        /\ RequestsOf(n) # {}

(* C27: waitForAcceptance terminates: an order in the poll loop leaves it, *)
(* whatever the polls report; when it leaves by the timeout (the status    *)
(* having stayed pending) the order is Failed with the timeout error.      *)
C27_PollLoopTerminates ==
    /\ [](\A o \in Orders :
            result[o].Error = "timeout" =>
                /\ result[o].State = StateFailed
                /\ driverLog[o].lastStatus \in {"none", "Pending"}
                /\ opc[o] \in {"returnedErr", "done"})
    /\ \A o \in Orders : (opc[o] = "poll") ~> (opc[o] # "poll")

(* An order that was polled, found pending, and timed out.                 *)
C27_Witness ==
    \E o \in Orders :
        /\ result[o].Error = "timeout"
        /\ driverLog[o].lastStatus = "Pending"
        /\ result[o].State = StateFailed
        /\ ~ctxDone

(* C28: a failed activate call leaves the order Failed and no request is   *)
(* ever enqueued for it; after a successful one the order is Activated,    *)
(* one end request is enqueued once the before-end wait is over, and the   *)
(* driver then goes on to its return without waiting for the worker.       *)
C28_ActivateFlow ==
    \A o \in Orders :
        /\ driverLog[o].activate <= 1
        /\ result[o].Error = "activate" =>
              /\ result[o].State = StateFailed
              /\ driverLog[o].activate = 1
              /\ opc[o] \in {"returnedErr", "done"}
              /\ RequestsOf(o) = {}
        /\ opc[o] \in {"beforeEnd", "sendEnd"} =>
              /\ result[o].State = StateActivated
              /\ driverLog[o].activate = 1
              /\ RequestsOf(o) = {}
        /\ opc[o] \in {"setPendingEnd", "setEndTime", "setDuration"}
              /\ PayloadType(o) = TypeActivate =>
              /\ Cardinality(RequestsOf(o)) = 1
              /\ \A k \in RequestsOf(o) : sendLog[k].Action = ActionEnd
              /\ ENABLED DriverProgress(o)
        /\ (\E k \in RequestsOf(o) : sendLog[k].Action = ActionEnd) =>
              /\ Cardinality(RequestsOf(o)) = 1
              /\ opc[o] \in {"setPendingEnd", "setEndTime", "setDuration",
                              "returnedOk", "done"}

(* The activate order has returned with its end request sent and not yet   *)
(* received by the worker.                                                 *)
C28_Witness ==
    \E o \in Orders :
        /\ driverLog[o].activate = 1
        /\ opc[o] = "returnedOk"
        /\ recvLog = <<>>
        /\ \E k \in RequestsOf(o) : sendLog[k].Action = ActionEnd

(* C29: at most one request is enqueued per order, and only for an order   *)
(* whose poll reported Accepted; the request asks for an end exactly when  *)
(* the payload type is activate (its activate call having succeeded) and   *)
(* for a cancel exactly when it is accepted; no activate call is made for  *)
(* an order of type accepted.                                              *)
C29_OneRequestByType ==
    /\ \A k, l \in 1..Len(sendLog) :
          sendLog[k].OrderID = sendLog[l].OrderID => k = l
    /\ \A k \in 1..Len(sendLog) :
          LET o == sendLog[k].OrderID IN
          /\ driverLog[o].lastStatus = "Accepted"
          /\ sendLog[k].Action = ActionEnd <=> PayloadType(o) = TypeActivate
          /\ sendLog[k].Action = ActionCancel <=> PayloadType(o) = TypeAccepted
          /\ sendLog[k].Action = ActionEnd =>
                /\ driverLog[o].activate = 1
                /\ result[o].Error # "activate"
    /\ \A o \in Orders :
          PayloadType(o) = TypeAccepted => driverLog[o].activate = 0

(* An end request and a cancel request were both sent.                     *)
C29_Witness ==
    /\ \E k \in 1..Len(sendLog) : sendLog[k].Action = ActionEnd
    /\ \E k \in 1..Len(sendLog) : sendLog[k].Action = ActionCancel

(* ---------------------- the batches: C33-C39 -------------------------- *)
(* C33: in a batch processed without cancellation the pacing wait comes    *)
(* after the driver run of every order but the last and before the create  *)
(* call of the next one, k-1 times for k payloads: the batch is in the     *)
(* wait only between a finished order and a next one not yet started, it   *)
(* enters the wait after every order that is not the last, and it moves to *)
(* the next payload only out of the wait.                                  *)
C33_PacingBetweenCreatesOnly ==
    /\ [](\A b \in Batches :
            bpc[b] = "pace" =>
                /\ idx[b] < BatchLen(b)
                /\ opc[PayloadAt(b, idx[b])] = "done"
                /\ opc[PayloadAt(b, idx[b] + 1)] = "idle")
    /\ [][\A b \in Batches :
            ~ctxDone' =>
                /\ (bpc[b] = "driving" /\ bpc'[b] # "driving") =>
                      bpc'[b] = IF idx[b] < BatchLen(b) THEN "pace"
                                ELSE "loop"
                /\ idx'[b] # idx[b] =>
                      /\ idx'[b] = idx[b] + 1
                      /\ \/ bpc[b] = "pace"
                         \/ bpc[b] = "driving" /\ idx[b] = BatchLen(b)
                /\ \A i \in 2..BatchLen(b) :
                      (opc[PayloadAt(b, i)] = "idle"
                         /\ opc'[PayloadAt(b, i)] # "idle") =>
                      /\ idx[b] = i
                      /\ opc[PayloadAt(b, i - 1)] = "done"]_vars

(* A batch of two payloads was processed to its end without cancellation:  *)
(* one pacing wait, between its two orders.                                *)
C33_Witness ==
    \E b \in Batches :
        /\ ~ctxDone
        /\ BatchLen(b) >= 2
        /\ bpc[b] = "sendResult"
        /\ idx[b] = BatchLen(b) + 1

(* The orders of batch b.                                                  *)
OrdersOf(b) == {PayloadAt(b, i) : i \in 1..BatchLen(b)}

(* ProcessBatches has returned.                                            *)
ProcessBatchesReturned == phase \in {"report", "failed"}

(* C34: the SimulationResult that ProcessBatches returns has its three     *)
(* counts equal to the sums over its BatchResults; and a batch counts an   *)
(* order as failed exactly when its driver has returned an error, as       *)
(* successful exactly when its driver has returned without one (its        *)
(* request enqueued).                                                      *)
C34_CountsFollowDriverReturns ==
    /\ ProcessBatchesReturned =>
          \A f \in {"TotalOrders", "SuccessfulOrders", "FailedOrders"} :
              simResult[f] = SumOrders(simResult.BatchResults, f)
    /\ \A b \in Batches :
          /\ batchResult[b].SuccessfulOrders =
                Cardinality({o \in OrdersOf(b) :
                                opc[o] = "done" /\ RequestsOf(o) # {}})
          /\ batchResult[b].FailedOrders =
                Cardinality({o \in OrdersOf(b) :
                                opc[o] = "done" /\ RequestsOf(o) = {}})

(* C35: in every BatchResult that processSingleBatch returns,              *)
(* SuccessfulOrders + FailedOrders = TotalOrders, whenever the             *)
(* cancellation comes; and so in the aggregated result.                    *)
C35_CountsAddUpToTotal ==
    /\ \A k \in 1..Len(resultsChan) :
          resultsChan[k].SuccessfulOrders + resultsChan[k].FailedOrders
              = resultsChan[k].TotalOrders
    /\ ProcessBatchesReturned =>
          simResult.SuccessfulOrders + simResult.FailedOrders
              = simResult.TotalOrders

(* The entries for order o in the BatchResults of the returned result.     *)
ReportedResults(o) ==
    {<<k, j>> \in (1..Len(simResult.BatchResults)) \X (1..BatchSize) :
        /\ j <= Len(simResult.BatchResults[k].OrderResults)
        /\ simResult.BatchResults[k].OrderResults[j].OrderNumber = o}

(* C36: once the worker has applied the request of an order, the entry of  *)
(* the order in the OrderResults of the returned result shows the terminal *)
(* state the worker wrote, also when the worker applied it after the       *)
(* driver had returned.                                                    *)
C36_ReportShowsTerminalState ==
    ProcessBatchesReturned =>
        \A k \in 1..Len(doneLog) : \A e \in ReportedResults(doneLog[k]) :
            simResult.BatchResults[e[1]].OrderResults[e[2]].State
                \in {StateEnded, StateCancelled, StateFailed}

(* C37: ProcessBatches returns only when every batch goroutine is done;    *)
(* every batch has given one BatchResult or one admission error, so the    *)
(* results and the errors together are as many as the batches; the return  *)
(* is with an error exactly when there is an admission error, and it       *)
(* carries the results of the admitted batches also then.                  *)
C37_OneOutcomePerBatch ==
    /\ \A k, l \in 1..Len(resultsChan) :
          resultsChan[k].BatchID = resultsChan[l].BatchID => k = l
    /\ Len(resultsChan) + Len(errorsChan) <= NumBatches
    /\ ProcessBatchesReturned =>
          /\ \A b \in Batches : bpc[b] = "done"
          /\ Len(resultsChan) + Len(errorsChan) = NumBatches
          /\ simResult.BatchResults = resultsChan
          /\ phase = "failed" <=> errorsChan # <<>>

(* ProcessBatches has returned an error for a batch cancelled at the gate, *)
(* with the result of the batch that was admitted.                         *)
C37_Witness ==
    /\ phase = "failed"
    /\ Len(errorsChan) = 1
    /\ Len(simResult.BatchResults) = 1
    /\ simResult.TotalOrders >= 1

(* C38: after the cancellation every batch goroutine finishes and          *)
(* ProcessBatches returns, wherever the drivers are (in a wait, in a poll, *)
(* at the send to terminationChan) and however full the channel is: until  *)
(* ProcessBatches has returned the cancelled run is never at a halt, some  *)
(* goroutine has a step to take.                                           *)
C38_CancelledRunNeverHalts ==
    (ctxDone /\ phase = "process") => ENABLED Next

(* C39: in a run without cancellation, with the remote calls returning and *)
(* the worker draining the channel, every batch is eventually admitted     *)
(* through the semaphore, also when there are more batches than            *)
(* ParallelBatches; a slot is given back only by an admitted batch at its  *)
(* end, once; and ProcessBatches returns with one BatchResult per batch.   *)
C39_EveryBatchAdmittedAndReturned ==
    /\ [][semaphore' # semaphore =>
            \E b \in Batches :
                /\ \A c \in Batches \ {b} : bpc'[c] = bpc[c]
                /\ \/ /\ bpc[b] = "acquire" /\ bpc'[b] = "loop"
                      /\ semaphore' = semaphore + 1
                   \/ /\ bpc[b] = "release" /\ bpc'[b] = "done"
                      /\ semaphore' = semaphore - 1]_vars
    /\ []((phase = "report" /\ ~ctxDone) =>
            /\ semaphore = 0
            /\ Len(simResult.BatchResults) = NumBatches
            /\ \A b \in Batches :
                  \E k \in 1..NumBatches :
                      simResult.BatchResults[k].BatchID = b)
    /\ \A b \in Batches : <>(ctxDone \/ bpc[b] # "acquire")
    /\ <>(ctxDone \/ phase = "report")

(* ProcessBatches has returned without cancellation, the batches being     *)
(* more than the slots of the semaphore.                                   *)
C39_Witness ==
    /\ phase = "report"
    /\ ~ctxDone
    /\ NumBatches > ParallelBatches
    /\ Len(simResult.BatchResults) = NumBatches
    /\ semaphore = 0

(* --------------------- Close and the worker: C24 ---------------------- *)
(* C24: after BatchProcessor.Close has closed the channel the worker stops *)
(* cleanly: what it hands to processTermination is a request that was      *)
(* sent, never the zero value of the closed channel, and it does not       *)
(* fault.                                                                  *)
C24_WorkerStopsCleanlyAfterClose ==
    /\ wpc # "panicked"
    /\ wpc \in {"apply", "applyZero", "setEndTime", "setDuration"} =>
          \E k \in 1..Len(sendLog) : sendLog[k] = wreq

(* ------------------- the path generator: C21-C23, C30 ----------------- *)
(* The placements made in row r so far.                                    *)
PlacedInRow(r) == {i \in 1..Len(placed) : placed[i].row = r}

(* C21: with a boundary configured, every point of every geometry that     *)
(* generatePolyline has returned is inside the exterior ring of the        *)
(* boundary by the ray-casting test; no geometry with a point outside is   *)
(* among the returned ones.                                                *)
C21_ReturnedGeometryInsideBoundary ==
    Len(genIn.boundary) > 0 =>
        \A i \in 1..Len(placed) : \A k \in 1..Len(placed[i].coords) :
            isPointInPolygon(placed[i].coords[k][1], placed[i].coords[k][2],
                             genIn.boundary[1])

(* Geometries were returned from two rows of a bounded area, candidates    *)
(* having been rejected in between.                                        *)
C21_Witness ==
    /\ Len(genIn.boundary) > 0
    /\ Len(placed) >= 3
    /\ placed[Len(placed)].row >= 1

(* C22: no two returned geometries were made at the same (row, column),    *)
(* and within a row the columns of the placements, in the order of the     *)
(* calls, are strictly increasing for direction +1 and strictly decreasing *)
(* for direction -1.                                                       *)
C22_DistinctCellsMonotoneColumns ==
    \A i, j \in 1..Len(placed) :
        i < j =>
            /\ <<placed[i].row, placed[i].col>>
                  # <<placed[j].row, placed[j].col>>
            /\ placed[i].row = placed[j].row =>
                  IF placed[i].direction = 1
                  THEN placed[i].col < placed[j].col
                  ELSE placed[i].col > placed[j].col

(* Two placements in a row scanned leftwards, after two in the row above.  *)
C22_Witness ==
    \E i, j \in 1..Len(placed) :
        /\ i < j
        /\ placed[i].row = placed[j].row
        /\ placed[i].direction = 0 - 1
        /\ Cardinality(PlacedInRow(placed[i].row - 1)) >= 2

(* The boundary cannot admit another placement: the candidate of the       *)
(* current row lies wholly south of the boundary, and every later row is   *)
(* further south.                                                          *)
Exhausted ==
    /\ Len(genIn.boundary) > 0
    /\ GenCalled
    /\ \A k \in 1..Len(genIn.base) :
          \A v \in 1..Len(genIn.boundary[1]) :
              Candidate(genIn, gen)[k][2] < genIn.boundary[1][v][2]

(* C23: path generation does not go on advancing rows once the boundary    *)
(* cannot admit another placement; it stops (with a generation error).     *)
C23_NoRowAdvanceWhenExhausted ==
    [][Exhausted => gen' = gen]_vars

(* The greatest column of the placements made in row r.                    *)
MaxPlacedCol(r) ==
    CHOOSE c \in {placed[i].col : i \in PlacedInRow(r)} :
        \A i \in PlacedInRow(r) : placed[i].col <= c

(* C30: a rejected candidate moves the generator to the next row with the  *)
(* direction flipped, so the direction is +1 on even rows and -1 on odd    *)
(* rows; the new row starts at column 0 when its direction is +1, and at   *)
(* the greatest column a placement was accepted at in the row just left    *)
(* when its direction is -1.                                               *)
C30_RowFlipAndStartColumn ==
    /\ [](gen.direction = IF gen.currentRow % 2 = 0 THEN 1 ELSE 0 - 1)
    /\ [][gen'.currentRow # gen.currentRow =>
            /\ gen'.currentRow = gen.currentRow + 1
            /\ gen'.direction = 0 - gen.direction
            /\ placed' = placed
            /\ gen'.direction = 1 => gen'.currentCol = 0
            /\ (gen'.direction = 0 - 1
                   /\ PlacedInRow(gen.currentRow) # {}) =>
                  gen'.currentCol = MaxPlacedCol(gen.currentRow)]_vars

(* After two placements in row 0 a candidate was rejected, and the         *)
(* leftward row 1 was entered at column 1, where a placement was made.     *)
C30_Witness ==
    /\ gen.currentRow = 1
    /\ gen.direction = 0 - 1
    /\ Cardinality(PlacedInRow(0)) >= 2
    /\ \E i \in PlacedInRow(1) : placed[i].col = MaxPlacedCol(0)

(* C31: while the candidates of the current row are valid, consecutive     *)
(* calls return placements at consecutive columns of the row and the row   *)
(* does not change: the placements of row 0 are the first ones, at columns *)
(* 0, 1, 2, ... in the order of the calls; a call that returns leaves the  *)
(* row as it is, and the row changes only by a rejected candidate.         *)
C31_ConsecutiveColumnsUntilRejection ==
    /\ [](\A i \in 1..Len(placed) :
            /\ placed[i].row = 0 => placed[i].col = i - 1
            /\ (i > 1 /\ placed[i].row = placed[i - 1].row) =>
                  placed[i].col = placed[i - 1].col + placed[i].direction)
    /\ [][/\ placed' # placed =>
               /\ isPolylineInBoundary(Candidate(genIn, gen), genIn.boundary)
               /\ placed' = Append(placed,
                                   Placement(gen, Candidate(genIn, gen)))
               /\ gen'.currentRow = gen.currentRow
               /\ gen'.currentCol = gen.currentCol + gen.direction
          /\ gen'.currentRow # gen.currentRow =>
               /\ ~isPolylineInBoundary(Candidate(genIn, gen),
                                        genIn.boundary)
               /\ placed' = placed]_vars

(* Row 0 admitted the columns 0, 1, 2 and no more: three placements, then  *)
(* the candidate at column 3 was rejected.                                 *)
C31_Witness ==
    /\ Len(genIn.boundary) > 0
    /\ Len(placed) = 3
    /\ \A i \in 1..3 : placed[i].row = 0 /\ placed[i].col = i - 1
    /\ gen.currentRow = 1

(* The number a sequence of decimal digits stands for.                     *)
RECURSIVE DigitsValue(_)
DigitsValue(ds) ==
    IF ds = <<>> THEN 0
    ELSE 10 * DigitsValue(SubSeq(ds, 1, Len(ds) - 1)) + ds[Len(ds)]

Retried(err) ==
    /\ err # NilError
    /\ ~(err.type = "HTTPError" /\ err.StatusCode \in 400..499
         /\ err.StatusCode # 429)

(* C40: doRequest makes at most retryMax+1 attempts; the wait completed    *)
(* before the k-th retry lasts backoff * 2^(k-1), and every attempt but    *)
(* the first follows such a wait; an attempt is followed by another only   *)
(* if it failed with something other than a 4xx that is not 429, a success *)
(* returns nil and such a 4xx returns that error; and once the context     *)
(* has ended during a backoff wait no further attempt is made and the      *)
(* context's error is what is returned.                                    *)
C40_doRequestRetries ==
    /\ Len(req.outcomes) <= req.retryMax + 1
    /\ \A k \in 1..Len(req.waits) : req.waits[k] = req.backoff * 2^(k - 1)
    /\ Len(req.outcomes) <= Len(req.waits) + 1
    /\ \A k \in 1..Len(req.outcomes) - 1 : Retried(req.outcomes[k])
    /\ \A k \in 1..Len(req.outcomes) :
          ~Retried(req.outcomes[k]) =>
              req.pc = "returned" /\ req.ret = req.outcomes[k]
    /\ req.cancelledAt >= 0 =>
          /\ Len(req.outcomes) = req.cancelledAt
          /\ req.pc \in {"backoff", "returned"}
          /\ req.pc = "returned" => req.ret = CtxError

(* doRequest has given up after retryMax+1 attempts, at least two of them  *)
(* retries after waits of non-zero length.                                 *)
C40_Witness ==
    /\ req.pc = "returned"
    /\ req.ret = FailedAfterAttempts
    /\ req.backoff > 0
    /\ Len(req.waits) >= 2
    /\ Len(req.outcomes) = req.retryMax + 1

====
